---- MODULE Spec2Model ----
(***************************************************************************)
(* Verification model of transformer/dombert/util.py: the dataset classes  *)
(* that turn a tagged review corpus into fixed-size token blocks, the      *)
(* domain vocabulary they build or load, and the .npy cache in front of    *)
(* them.                                                                   *)
(*                                                                         *)
(* Representation.  A string the program inspects character by character   *)
(* (a path, a file name, a model type) is a sequence of one-character      *)
(* strings.  A line of a source file, after line.strip(), is the sequence  *)
(* of its whitespace-separated words (text.split()); the blank line is     *)
(* <<>>.  A word is the sequence of its "/"-separated pieces, so the word  *)
(* Accessories/Laptops/Sub is <<"Accessories", "Laptops", "Sub">>.  A      *)
(* string made by " ".join and "/".join (a domain) is the sequence of its  *)
(* "/"-separated segments, each the sequence of its space-separated        *)
(* pieces.  A Python dict is the sequence of its <<key, value>> pairs in   *)
(* insertion order.                                                        *)
(***************************************************************************)
EXTENDS Integers, Sequences, FiniteSets, TLC

VARIABLES
    files,      \* source files on disk: path -> sequence of lines
    cache,      \* .npy files on disk: path -> array (sequence of rows)
    vocab,      \* vocabulary .json files on disk: path -> dict
    args,       \* model_type, train_data_file, eval_data_file, block_size
    tokenizer,  \* the tokenizer object the caller passes in
    last,       \* outcome of the most recent construction
    seen,       \* per cache path: the array of the most recent successful
                \* construction and whether source and cache are as it left them
    ops,        \* operations left in this behaviour
    proc        \* the constructions in progress, one per process: where each
                \* is in __init__ and its local variables (<<>> where every
                \* construction is one step)

vars == <<files, cache, vocab, args, tokenizer, last, seen, ops, proc>>

(***************************************************************************)
(* Bounds of the model.                                                    *)
(***************************************************************************)
MaxRecs == 2       \* records per generated source file
MaxBlock == 2      \* block_size ranges over 1..MaxBlock
MaxOps == 3        \* operations per behaviour of Spec

(***************************************************************************)
(* Strings and paths.                                                      *)
(***************************************************************************)
RECURSIVE Flatten(_)
Flatten(ss) == IF ss = <<>> THEN <<>> ELSE Head(ss) \o Flatten(Tail(ss))

Contains(s, sub) ==
    \E i \in 1..(Len(s) - Len(sub) + 1) : SubSeq(s, i, i + Len(sub) - 1) = sub

LastIndexOf(s, c) ==
    LET hits == {i \in 1..Len(s) : s[i] = c}
    IN  IF hits = {} THEN 0 ELSE CHOOSE i \in hits : \A j \in hits : j <= i

IndexOf(s, c) ==
    LET hits == {i \in 1..Len(s) : s[i] = c}
    IN  IF hits = {} THEN 0 ELSE CHOOSE i \in hits : \A j \in hits : i <= j

\* os.path.split(file_path): everything before the last "/" and after it.
PathSplit(p) ==
    LET k == LastIndexOf(p, "/")
    IN  [directory |-> IF k = 1 THEN <<"/">> ELSE SubSeq(p, 1, k - 1),
         filename  |-> SubSeq(p, k + 1, Len(p))]

\* os.path.join(directory, name)
PathJoin(directory, name) ==
    IF directory = <<>> THEN name
    ELSE IF directory[Len(directory)] = "/" THEN directory \o name
    ELSE directory \o <<"/">> \o name

Digit(d) == <<"0", "1", "2", "3", "4", "5", "6", "7", "8", "9">>[d + 1]

RECURSIVE NatStr(_)
NatStr(n) == IF n < 10 THEN <<Digit(n)>> ELSE NatStr(n \div 10) \o <<Digit(n % 10)>>

\* str(block_size)
Str(n) == IF n < 0 THEN <<"-">> \o NatStr(-n) ELSE NatStr(n)

\* model_type.split("-")[0]
ModelPrefix(mt) ==
    LET k == IndexOf(mt, "-") IN IF k = 0 THEN mt ELSE SubSeq(mt, 1, k - 1)


(***************************************************************************)
(* Python dicts (insertion-ordered) as sequences of <<key, value>> pairs.  *)
(***************************************************************************)
Keys(d) == [i \in 1..Len(d) |-> d[i][1]]

Has(d, k) == \E i \in 1..Len(d) : d[i][1] = k

Get(d, k) == d[CHOOSE i \in 1..Len(d) : d[i][1] = k][2]

\* d[k] of a defaultdict: the default when k is no key
GetOr(d, k, default) == IF Has(d, k) THEN Get(d, k) ELSE default

\* d[k] = v: an existing key keeps its place, a new key goes last
Put(d, k, v) ==
    IF Has(d, k)
    THEN [i \in 1..Len(d) |-> IF d[i][1] = k THEN <<k, v>> ELSE d[i]]
    ELSE Append(d, <<k, v>>)

(***************************************************************************)
(* The dataset classes and their cache file names.                         *)
(***************************************************************************)
GroupedVariants ==
    {"DOIDataset", "LaptopDomainDataset", "RestDomainDataset", "LRDataset",
     "DiverseTagEmbDataset", "LRTagEmbDataset"}

LoadOnlyVariants == {"LaptopTSDataset", "RestTSDataset"}

Variants == GroupedVariants \cup LoadOnlyVariants \cup {"SkipTagDataset", "TextDataset"}

CachePrefix(v, mt) ==
    CASE v = "TextDataset" -> ModelPrefix(mt) \o <<"_", "c", "a", "c", "h", "e", "d", "_", "l", "m", "_">>
      [] v = "DOIDataset" -> <<"c", "a", "c", "h", "e", "d", "_", "d", "o", "i", "m", "e", "r", "g", "e", "d", "_">>
      [] v = "LaptopTSDataset" -> <<"c", "a", "c", "h", "e", "d", "_", "d", "o", "i", "m", "e", "r", "g", "e", "d", "_", "l", "a", "p", "t", "o", "p", "_">>
      [] v = "RestTSDataset" -> <<"c", "a", "c", "h", "e", "d", "_", "d", "o", "i", "m", "e", "r", "g", "e", "d", "_", "r", "e", "s", "t", "a", "u", "r", "a", "n", "t", "_">>
      [] v = "LaptopDomainDataset" -> <<"c", "a", "c", "h", "e", "d", "_", "l", "a", "p", "t", "o", "p", "_">>
      [] v = "RestDomainDataset" -> <<"c", "a", "c", "h", "e", "d", "_", "r", "e", "s", "t", "a", "u", "r", "a", "n", "t", "_">>
      [] v = "LRDataset" -> <<"c", "a", "c", "h", "e", "d", "_", "l", "r", "_">>
      [] v = "DiverseTagEmbDataset" -> <<"c", "a", "c", "h", "e", "d", "_", "d", "i", "v", "e", "r", "s", "e", "t", "a", "g", "e", "m", "b", "_">>
      [] v = "LRTagEmbDataset" -> <<"c", "a", "c", "h", "e", "d", "_", "l", "r", "t", "a", "g", "e", "m", "b", "_">>
      [] v = "SkipTagDataset" -> <<"c", "a", "c", "h", "e", "d", "_", "s", "k", "i", "p", "t", "a", "g", "_">>

\* cached_features_file
CachedFeaturesFile(v, mt, file_path, block_size) ==
    PathJoin(PathSplit(file_path).directory,
             CachePrefix(v, mt) \o Str(block_size) \o <<"_">>
                 \o PathSplit(file_path).filename \o <<".", "n", "p", "y">>)

DoiDomainJson == <<"d", "o", "i", "_", "d", "o", "m", "a", "i", "n", ".", "j", "s", "o", "n">>

DiverseDomainJson == <<"d", "i", "v", "e", "r", "s", "e", "_", "d", "o", "m", "a", "i", "n", ".", "j", "s", "o", "n">>

\* the vocabulary file a variant uses, in the directory of the source file
VocabFile(v, file_path) ==
    PathJoin(PathSplit(file_path).directory,
             IF v \in {"DiverseTagEmbDataset", "LRTagEmbDataset"}
             THEN DiverseDomainJson ELSE DoiDomainJson)

\* "train" in file_path
IsTrainPath(file_path) == Contains(file_path, <<"t", "r", "a", "i", "n">>)

(***************************************************************************)
(* Domains.                                                                *)
(***************************************************************************)
Laptops == << <<"Electronics">>, <<"Computers", "&", "Accessories">>, <<"Laptops">> >>

Restaurants == << <<"Restaurants">> >>

TokDOI == << <<"[DOI]">> >>

TokGENERAL == << <<"[GENERAL]">> >>

TokOTHER == << <<"[OTHER]">> >>

\* dois of a variant that filters by domain
Dois(v) ==
    CASE v \in {"DOIDataset", "LRDataset"} -> {Laptops, Restaurants}
      [] v = "LaptopDomainDataset" -> {Laptops}
      [] v = "RestDomainDataset" -> {Restaurants}
      [] OTHER -> {}

\* the cap on identifiers per (domain, rating) of the tag-embedding variants
DiverseCap == 50

LRCap == 5000

(***************************************************************************)
(* The record parser: header lines.                                        *)
(***************************************************************************)
\* " ".join(words).split("/")
RECURSIVE JoinSplit(_)
JoinSplit(words) ==
    IF words = <<>> THEN << <<"">> >>
    ELSE LET w == words[Len(words)]
             own == [i \in 1..Len(w) |-> <<w[i]>>]
         IN  IF Len(words) = 1 THEN own
             ELSE LET acc == JoinSplit(SubSeq(words, 1, Len(words) - 1))
                  IN  SubSeq(acc, 1, Len(acc) - 1)
                          \o << acc[Len(acc)] \o <<w[1]>> >>
                          \o Tail(own)

\* "/".join(" ".join(segs[1:-1]).split("/")[:3])
HeaderDomain(segs) ==
    LET parts == JoinSplit(SubSeq(segs, 2, Len(segs) - 1))
    IN  SubSeq(parts, 1, IF Len(parts) < 3 THEN Len(parts) ELSE 3)

\* whether segs[0] and segs[-1] raise IndexError: only for an empty list, and
\* text.split() of a non-blank line is never empty
HeaderIndexError(segs) == Len(segs) = 0

\* segs[0]
HeaderAsin(segs) == segs[1]

\* segs[-1]
HeaderRating(segs) == segs[Len(segs)]

(***************************************************************************)
(* The tokenizer (an external collaborator, here two stand-ins that differ *)
(* in how they cut a text, in their ids and in their framing).  A token is *)
(* a sequence of pieces and "/" marks.                                     *)
(***************************************************************************)
Tokenizers == {"bert", "roberta"}

\* a word's pieces with the "/" marks between them
RECURSIVE Interleave(_)
Interleave(w) ==
    IF Len(w) <= 1 THEN w ELSE <<w[1], "/">> \o Interleave(Tail(w))

\* tokenizer.tokenize(text): "bert" cuts at whitespace and punctuation,
\* "roberta" at whitespace only
WordTokens(tk, w) ==
    IF tk = "bert"
    THEN LET m == SelectSeq(Interleave(w), LAMBDA p : p # "")
         IN  [i \in 1..Len(m) |-> <<m[i]>>]
    ELSE << Interleave(w) >>

RECURSIVE Tokenize(_, _)
Tokenize(tk, text) ==
    IF text = <<>> THEN <<>>
    ELSE WordTokens(tk, Head(text)) \o Tokenize(tk, Tail(text))

\* tokenizer.convert_tokens_to_ids, one token: a vocabulary lookup, the
\* unknown-token id for a token that is not in the vocabulary.  "xlmr" is a
\* tokenizer with a vocabulary of more than 65536 entries (it cuts and
\* frames like "roberta").
TokenId(tk, tok) ==
    LET known == Len(tok) = 1 /\ tok[1] \in {"fast", "slow", "nice", "poor"}
        ix == CASE tok[1] = "fast" -> 1 [] tok[1] = "slow" -> 2
                [] tok[1] = "nice" -> 3 [] OTHER -> 4
    IN  CASE tk = "bert" -> (IF known THEN 2000 + ix ELSE 100)
          [] tk = "xlmr" -> (IF known THEN 70000 + ix ELSE 3)
          [] OTHER -> (IF known THEN 7000 + ix ELSE 3)

ConvertTokensToIds(tk, toks) == [i \in 1..Len(toks) |-> TokenId(tk, toks[i])]

\* tokenizer.build_inputs_with_special_tokens
BuildInputsWithSpecialTokens(tk, ids) ==
    IF tk = "bert" THEN <<101>> \o ids \o <<102>> ELSE <<0>> \o ids \o <<2>>

\* np.array([input_ids], dtype=np.uint16): one row of 16-bit unsigned values
Uint16Row(input_ids) == [i \in 1..Len(input_ids) |-> input_ids[i] % 65536]

\* row.astype(np.int64) of a row of 16-bit unsigned values: zero extension,
\* every value 0..65535 keeps its value
AsInt64(row) == [i \in 1..Len(row) |-> row[i]]

\* __getitem__(item), item counted from 1
GetItem(examples, item) == AsInt64(examples[item])

\* the tokens of the text of line n, each tagged with the place it comes from
\* (the tags are bookkeeping of the model; the program sees only tok)
TaggedTokens(tk, t) ==
    LET toks == Tokenize(tk, t.text)
    IN  [i \in 1..Len(toks) |-> [tok |-> toks[i], line |-> t.line, pos |-> i]]

(***************************************************************************)
(* The domain grouper: domain_corpus[domain][rating][asin] is the list of  *)
(* the body lines kept, each a record [text, line] (line: its number in    *)
(* the file, bookkeeping of the model).                                    *)
(***************************************************************************)
\* mutant of KeepsLine: the tag-embedding variants keep every body line
KeepsLineNoCap(v, domain_corpus, domain, rating) ==
    CASE v = "DOIDataset" -> domain \notin Dois(v)
      [] v \in {"LaptopDomainDataset", "RestDomainDataset", "LRDataset"} ->
             domain \in Dois(v)
      [] OTHER -> TRUE

\* the condition under which a body line is appended
KeepsLine(v, domain_corpus, domain, rating) ==
    CASE v = "DOIDataset" -> domain \notin Dois(v)
      [] v \in {"LaptopDomainDataset", "RestDomainDataset", "LRDataset"} ->
             domain \in Dois(v)
      [] v = "DiverseTagEmbDataset" ->
             Len(GetOr(GetOr(domain_corpus, domain, <<>>), rating, <<>>)) < DiverseCap
      [] v = "LRTagEmbDataset" ->
             Len(GetOr(GetOr(domain_corpus, domain, <<>>), rating, <<>>)) < LRCap

\* mutant of AppendText: the line goes to the front of the identifier's list
AppendTextInFront(domain_corpus, domain, rating, asin, t) ==
    LET rs == GetOr(domain_corpus, domain, <<>>)
        as == GetOr(rs, rating, <<>>)
        ts == GetOr(as, asin, <<>>)
    IN  Put(domain_corpus, domain, Put(rs, rating, Put(as, asin, <<t>> \o ts)))

\* domain_corpus[domain][rating][asin].append(text)
AppendText(domain_corpus, domain, rating, asin, t) ==
    LET rs == GetOr(domain_corpus, domain, <<>>)
        as == GetOr(rs, rating, <<>>)
        ts == GetOr(as, asin, <<>>)
    IN  Put(domain_corpus, domain, Put(rs, rating, Put(as, asin, Append(ts, t))))

\* mutant of ReadLine: a blank line does not set tag_on
ReadLineKeepsTag(v, st, text, n) ==
    IF text = <<>> THEN st
    ELSE IF st.tag_on
    THEN [st EXCEPT !.tag_on = FALSE,
                    !.asin = HeaderAsin(text),
                    !.rating = HeaderRating(text),
                    !.domain = HeaderDomain(text)]
    ELSE IF KeepsLine(v, st.domain_corpus, st.domain, st.rating)
    THEN [st EXCEPT !.domain_corpus =
              AppendText(st.domain_corpus, st.domain, st.rating, st.asin,
                         [text |-> text, line |-> n])]
    ELSE st

\* mutant of ReadLine: a header line creates the entry of its identifier
ReadLineFilesHeader(v, st, text, n) ==
    IF text = <<>> THEN [st EXCEPT !.tag_on = TRUE]
    ELSE IF st.tag_on
    THEN LET rs == GetOr(st.domain_corpus, HeaderDomain(text), <<>>)
             as == GetOr(rs, HeaderRating(text), <<>>)
             ts == GetOr(as, HeaderAsin(text), <<>>)
         IN  [st EXCEPT !.tag_on = FALSE,
                        !.asin = HeaderAsin(text),
                        !.rating = HeaderRating(text),
                        !.domain = HeaderDomain(text),
                        !.domain_corpus =
                            Put(st.domain_corpus, HeaderDomain(text),
                                Put(rs, HeaderRating(text), Put(as, HeaderAsin(text), ts)))]
    ELSE IF KeepsLine(v, st.domain_corpus, st.domain, st.rating)
    THEN [st EXCEPT !.domain_corpus =
              AppendText(st.domain_corpus, st.domain, st.rating, st.asin,
                         [text |-> text, line |-> n])]
    ELSE st

\* one pass of "for line in f" of a grouped variant
ReadLine(v, st, text, n) ==
    IF text = <<>> THEN [st EXCEPT !.tag_on = TRUE]
    ELSE IF st.tag_on
    THEN [st EXCEPT !.tag_on = FALSE,
                    !.asin = HeaderAsin(text),
                    !.rating = HeaderRating(text),
                    !.domain = HeaderDomain(text)]
    ELSE IF KeepsLine(v, st.domain_corpus, st.domain, st.rating)
    THEN [st EXCEPT !.domain_corpus =
              AppendText(st.domain_corpus, st.domain, st.rating, st.asin,
                         [text |-> text, line |-> n])]
    ELSE st

\* "for line in f" over the lines lo..hi, from the loop state st: the first
\* half of the lines, then the second half from the state the first leaves
\* (halving keeps the evaluation shallow for files of hundreds of lines)
RECURSIVE ReadLines(_, _, _, _, _)
ReadLines(v, lines, lo, hi, st) ==
    IF lo > hi THEN st
    ELSE IF lo = hi THEN ReadLine(v, st, lines[lo], lo)
    ELSE LET mid == (lo + hi) \div 2
             first == ReadLines(v, lines, lo, mid, st)
         IN  IF first.tag_on \in BOOLEAN
             THEN ReadLines(v, lines, mid + 1, hi, first)
             ELSE first

\* the grouped corpus of a source file
DomainCorpus(v, lines) ==
    ReadLines(v, lines, 1, Len(lines),
              [tag_on |-> TRUE, asin |-> <<>>, rating |-> <<>>, domain |-> <<>>,
               domain_corpus |-> <<>>]).domain_corpus

(***************************************************************************)
(* The domain vocabulary.                                                  *)
(***************************************************************************)
RECURSIVE AddDomains(_, _, _)
AddDomains(v, domain_to_id, domains) ==
    IF domains = <<>> THEN domain_to_id
    ELSE AddDomains(v,
             IF Head(domains) \notin Dois(v)
             THEN Put(domain_to_id, Head(domains), Len(domain_to_id))
             ELSE domain_to_id,
             Tail(domains))

\* the reserved entries a variant starts its vocabulary with
Reserved(v) ==
    IF v = "DOIDataset" THEN << <<TokDOI, 0>> >>
    ELSE << <<TokGENERAL, 0>>, <<TokOTHER, 1>> >>

\* domain_to_id as built from a training corpus
BuildVocabulary(v, domain_corpus) ==
    AddDomains(v, Reserved(v), Keys(domain_corpus))

\* whether a variant builds the vocabulary (and writes it) for this path
WritesVocabulary(v, file_path) ==
    v \in {"DOIDataset", "DiverseTagEmbDataset", "LRTagEmbDataset"}
        /\ IsTrainPath(file_path)

(***************************************************************************)
(* The block chunker.  The loop state st carries the buffer, the rows made *)
(* so far (examples), the blocks they were made from (blocks: bookkeeping  *)
(* of the model), the exception raised if any (err) and the number of      *)
(* tokenizer.tokenize calls.  block_size is at least 1 in Drain and         *)
(* DrainPlain; the loops are taken step by step, for every block_size, in  *)
(* the process model further down.                                         *)
(***************************************************************************)
\* d[k], or the KeyError it raises
Lookup(d, k) ==
    IF Has(d, k) THEN [err |-> "", id |-> Get(d, k)]
    ELSE [err |-> "KeyError", id |-> 0]

\* mutant of DomainSeg: the tag-embedding variants look the domain up
\* without a fallback
DomainSegNoFallback(v, domain_to_id, domain) ==
    IF v = "DOIDataset" /\ domain \in {Laptops, Restaurants}
    THEN Lookup(domain_to_id, TokDOI)
    ELSE IF v \in {"LaptopDomainDataset", "RestDomainDataset", "LRDataset"}
    THEN Lookup(domain_to_id, TokDOI)
    ELSE Lookup(domain_to_id, domain)

\* domain_seg of a block, or the exception raised
DomainSeg(v, domain_to_id, domain) ==
    CASE v = "DOIDataset" ->
             IF domain \in Dois(v) THEN Lookup(domain_to_id, TokDOI)
             ELSE Lookup(domain_to_id, domain)
      [] v \in {"LaptopDomainDataset", "RestDomainDataset", "LRDataset"} ->
             IF domain \in Dois(v) THEN Lookup(domain_to_id, TokDOI)
             ELSE [err |-> "ValueError: domain is not in DOI", id |-> 0]
      [] v \in {"DiverseTagEmbDataset", "LRTagEmbDataset"} ->
             IF Has(domain_to_id, domain) THEN Lookup(domain_to_id, domain)
             ELSE Lookup(domain_to_id, TokOTHER)

\* mutant of PopBlock: the whole buffer is dropped once a block is made
PopBlockDropsRest(buffer, block_size) == <<>>

\* the buffer after "for ix in range(block_size): buffer.popleft()" (the
\* range is empty when block_size is 0 or less)
PopBlock(buffer, block_size) ==
    IF block_size <= 0 THEN buffer ELSE SubSeq(buffer, block_size + 1, Len(buffer))

\* mutant of InputIds: the segment id is framed together with the token ids
InputIdsSegInside(tk, domain_seg, block) ==
    BuildInputsWithSpecialTokens(tk,
        <<domain_seg>> \o ConvertTokensToIds(tk, [i \in 1..Len(block) |-> block[i].tok]))

\* input_ids of one block: the segment id before the framed token ids
InputIds(tk, domain_seg, block) ==
    <<domain_seg>> \o
        BuildInputsWithSpecialTokens(tk,
            ConvertTokensToIds(tk, [i \in 1..Len(block) |-> block[i].tok]))

\* while len(buffer) >= block_size: ...
RECURSIVE Drain(_, _, _, _, _, _, _)
Drain(v, tk, domain_to_id, block_size, domain, rating, st) ==
    IF st.err # "" \/ Len(st.buffer) < block_size THEN st
    ELSE LET block == SubSeq(st.buffer, 1, block_size)
             seg == DomainSeg(v, domain_to_id, domain)
             popped == [st EXCEPT !.buffer = PopBlock(st.buffer, block_size)]
         IN  IF seg.err # "" THEN [popped EXCEPT !.err = seg.err]
             ELSE Drain(v, tk, domain_to_id, block_size, domain, rating,
                      [popped EXCEPT
                          !.examples = Append(@, Uint16Row(InputIds(tk, seg.id, block))),
                          !.blocks = Append(@, [domain |-> domain, rating |-> rating,
                                                toks |-> block])])

\* for text in domain_corpus[domain][rating][asin]: ...
RECURSIVE ChunkTexts(_, _, _, _, _, _, _, _)
ChunkTexts(v, tk, domain_to_id, block_size, domain, rating, texts, st) ==
    IF texts = <<>> \/ st.err # "" THEN st
    ELSE ChunkTexts(v, tk, domain_to_id, block_size, domain, rating, Tail(texts),
             Drain(v, tk, domain_to_id, block_size, domain, rating,
                   [st EXCEPT !.buffer = @ \o TaggedTokens(tk, Head(texts)),
                              !.calls = @ + 1]))

\* for asin in domain_corpus[domain][rating]: ... (the buffer is kept)
RECURSIVE ChunkAsins(_, _, _, _, _, _, _, _)
ChunkAsins(v, tk, domain_to_id, block_size, domain, rating, asins, st) ==
    IF asins = <<>> \/ st.err # "" THEN st
    ELSE ChunkAsins(v, tk, domain_to_id, block_size, domain, rating, Tail(asins),
             ChunkTexts(v, tk, domain_to_id, block_size, domain, rating,
                        Head(asins)[2], st))

\* mutant of NewBuffer: the buffer of the pair before is kept
NewBufferKeepsOld(buffer) == buffer

\* buffer = deque(): the buffer a (domain, rating) pair starts with
NewBuffer(buffer) == <<>>

\* for rating in domain_corpus[domain]: ...
RECURSIVE ChunkRatings(_, _, _, _, _, _, _)
ChunkRatings(v, tk, domain_to_id, block_size, domain, ratings, st) ==
    IF ratings = <<>> \/ st.err # "" THEN st
    ELSE ChunkRatings(v, tk, domain_to_id, block_size, domain, Tail(ratings),
             ChunkAsins(v, tk, domain_to_id, block_size, domain, Head(ratings)[1],
                        Head(ratings)[2],
                        [st EXCEPT !.buffer = NewBuffer(st.buffer)]))

\* mutant of ChunkOrder: every variant walks the domains of the corpus
ChunkOrderOfCorpus(v, domain_corpus) == Keys(domain_corpus)

\* the domains the chunker walks, in order
ChunkOrder(v, domain_corpus) ==
    IF v = "LRTagEmbDataset" THEN <<Laptops, Restaurants>> ELSE Keys(domain_corpus)

\* for domain in ...: ...
RECURSIVE ChunkDomains(_, _, _, _, _, _, _)
ChunkDomains(v, tk, domain_to_id, block_size, domain_corpus, domains, st) ==
    IF domains = <<>> \/ st.err # "" THEN st
    ELSE ChunkDomains(v, tk, domain_to_id, block_size, domain_corpus, Tail(domains),
             ChunkRatings(v, tk, domain_to_id, block_size, Head(domains),
                          GetOr(domain_corpus, Head(domains), <<>>), st))

ChunkStart == [buffer |-> <<>>, examples |-> <<>>, blocks |-> <<>>, err |-> "", calls |-> 0]

(***************************************************************************)
(* The variants without grouping: one buffer for the whole file.           *)
(***************************************************************************)
\* while len(buffer) >= block_size: ... buffer = buffer[block_size:]
RECURSIVE DrainPlain(_, _, _)
DrainPlain(tk, block_size, st) ==
    IF Len(st.buffer) < block_size THEN st
    ELSE LET block == SubSeq(st.buffer, 1, block_size)
         IN  DrainPlain(tk, block_size,
                 [st EXCEPT
                     !.buffer = SubSeq(st.buffer, block_size + 1, Len(st.buffer)),
                     !.examples = Append(@, Uint16Row(
                         BuildInputsWithSpecialTokens(tk,
                             ConvertTokensToIds(tk, [i \in 1..Len(block) |-> block[i].tok])))),
                     !.blocks = Append(@, [domain |-> <<>>, rating |-> <<>>,
                                           toks |-> block])])

\* "for line in f" of TextDataset (every non-blank line is text) and of
\* SkipTagDataset (the first non-blank line after a blank one is skipped)
RECURSIVE PlainLines(_, _, _, _, _, _, _)
PlainLines(v, tk, block_size, lines, n, tag_on, st) ==
    IF n > Len(lines) THEN st
    ELSE IF lines[n] = <<>>
    THEN PlainLines(v, tk, block_size, lines, n + 1, TRUE, st)
    ELSE IF v = "SkipTagDataset" /\ tag_on
    THEN PlainLines(v, tk, block_size, lines, n + 1, FALSE, st)
    ELSE PlainLines(v, tk, block_size, lines, n + 1, FALSE,
             DrainPlain(tk, block_size,
                 [st EXCEPT !.buffer = @ \o TaggedTokens(tk, [text |-> lines[n], line |-> n]),
                            !.calls = @ + 1]))

(***************************************************************************)
(* One construction on a cache miss: parse, group, vocabulary, chunk.      *)
(***************************************************************************)
\* the build of a grouped variant, up to np.concatenate
BuildGrouped(v, tk, file_path, lines, block_size, vocabfiles) ==
    LET domain_corpus == DomainCorpus(v, lines)
        vf == VocabFile(v, file_path)
        writes == WritesVocabulary(v, file_path)
        missing == ~writes /\ vf \notin DOMAIN vocabfiles
        domain_to_id == IF writes THEN BuildVocabulary(v, domain_corpus)
                        ELSE IF missing THEN <<>> ELSE vocabfiles[vf]
        st == IF missing THEN ChunkStart
              ELSE ChunkDomains(v, tk, domain_to_id, block_size, domain_corpus,
                                ChunkOrder(v, domain_corpus), ChunkStart)
        error == IF missing THEN "FileNotFoundError"
                 ELSE IF st.err # "" THEN st.err
                 ELSE IF st.examples = <<>>
                 THEN "ValueError: need at least one array to concatenate"
                 ELSE ""
    IN  [error |-> error,
         examples |-> IF error = "" THEN st.examples ELSE <<>>,
         blocks |-> st.blocks,
         chunked |-> ~missing /\ st.err = "",
         domain_corpus |-> domain_corpus,
         domain_to_id |-> domain_to_id,
         calls |-> st.calls,
         vocab_read |-> ~writes,
         vocab_written |-> writes]

\* the build of TextDataset and SkipTagDataset
BuildPlain(v, tk, lines, block_size) ==
    LET st == PlainLines(v, tk, block_size, lines, 1, TRUE, ChunkStart)
        error == IF st.examples = <<>>
                 THEN "ValueError: need at least one array to concatenate"
                 ELSE ""
    IN  [error |-> error,
         examples |-> st.examples,
         blocks |-> st.blocks,
         chunked |-> TRUE,
         domain_corpus |-> <<>>,
         domain_to_id |-> <<>>,
         calls |-> st.calls,
         vocab_read |-> FALSE,
         vocab_written |-> FALSE]

\* what a construction does without reaching the build
NoBuild(error, examples) ==
    [error |-> error, examples |-> examples, blocks |-> <<>>, chunked |-> FALSE,
     domain_corpus |-> <<>>, domain_to_id |-> <<>>, calls |-> 0,
     vocab_read |-> FALSE, vocab_written |-> FALSE]

\* the else branch of "if os.path.exists(cached_features_file)"
OnMiss(v, tk, file_path, lines, block_size, vocabfiles) ==
    IF v \in LoadOnlyVariants THEN NoBuild("Exception", <<>>)
    ELSE IF v \in GroupedVariants
    THEN BuildGrouped(v, tk, file_path, lines, block_size, vocabfiles)
    ELSE BuildPlain(v, tk, lines, block_size)

\* mutant of OnHit: the first row of the file is lost
OnHitLosesRow(array) == NoBuild("", Tail(array))

\* np.load(cached_features_file)
OnHit(array) == NoBuild("", array)

\* mutant of CacheHit: the cache file is never found
CacheHitNever(cached_features_file, cachefiles) == FALSE

\* whether the constructor takes the cache branch
CacheHit(cached_features_file, cachefiles) == cached_features_file \in DOMAIN cachefiles

\* dataset_cls.__init__ as a whole: the outcome, and the files it leaves
Outcome(v, tk, mt, file_path, block_size) ==
    LET key == CachedFeaturesFile(v, mt, file_path, block_size)
    IN  IF file_path \notin DOMAIN files THEN NoBuild("AssertionError", <<>>)
        ELSE IF CacheHit(key, cache) THEN OnHit(cache[key])
        ELSE OnMiss(v, tk, file_path, files[file_path], block_size, vocab)

\* f with path p holding x
Store(f, p, x) == [q \in (DOMAIN f) \cup {p} |-> IF q = p THEN x ELSE f[q]]

\* f without path p
Remove(f, p) == [q \in (DOMAIN f) \ {p} |-> f[q]]

\* mutant of SaveArray: nothing is written
SaveArrayNowhere(cachefiles, cached_features_file, examples) == cachefiles

\* np.save(cached_features_file, self.examples)
SaveArray(cachefiles, cached_features_file, examples) ==
    Store(cachefiles, cached_features_file, examples)

\* json.dump(domain_to_id, fw)
SaveVocabulary(vocabfiles, path, domain_to_id) == Store(vocabfiles, path, domain_to_id)

\* what identifies a call in the bookkeeping of the model: the class, the
\* source path and the block size, and for TextDataset the model type
CallId(v, mt, file_path, block_size) ==
    <<v, IF v = "TextDataset" THEN mt ELSE <<>>, file_path, block_size>>

\* the bookkeeping of a construction: last, seen and the operation count
Record(v, tk, mt, file_path, block_size, evaluate, via, key, hit, out) ==
    LET id == CallId(v, mt, file_path, block_size)
        again == id \in DOMAIN seen /\ seen[id].valid
    IN  /\ ops > 0
        /\ ops' = ops - 1
        /\ last' = [at |-> ops, via |-> via, variant |-> v, file_path |-> file_path,
                    block_size |-> block_size, evaluate |-> evaluate,
                    tokenizer |-> tk, key |-> key, hit |-> hit, again |-> again,
                    before |-> IF again THEN seen[id].examples ELSE <<>>,
                    out |-> out]
        /\ seen' = IF out.error = ""
                   THEN Store(seen, id, [examples |-> out.examples, valid |-> TRUE,
                                         file_path |-> file_path, key |-> key])
                   ELSE seen

\* mutant of Construct: the rows made so far are saved also when the build
\* fails
ConstructSavesAlways(v, tk, mt, file_path, block_size, evaluate, via) ==
    LET key == CachedFeaturesFile(v, mt, file_path, block_size)
        hit == file_path \in DOMAIN files /\ CacheHit(key, cache)
        out == Outcome(v, tk, mt, file_path, block_size)
    IN  /\ vocab' = IF out.vocab_written
                    THEN SaveVocabulary(vocab, VocabFile(v, file_path), out.domain_to_id)
                    ELSE vocab
        /\ cache' = IF ~hit THEN SaveArray(cache, key, out.examples) ELSE cache
        /\ Record(v, tk, mt, file_path, block_size, evaluate, via, key, hit, out)
        /\ UNCHANGED <<files, args, tokenizer, proc>>

\* dataset_cls.__init__ as a whole
Construct(v, tk, mt, file_path, block_size, evaluate, via) ==
    LET key == CachedFeaturesFile(v, mt, file_path, block_size)
        hit == file_path \in DOMAIN files /\ CacheHit(key, cache)
        out == Outcome(v, tk, mt, file_path, block_size)
    IN  /\ vocab' = IF out.vocab_written
                    THEN SaveVocabulary(vocab, VocabFile(v, file_path), out.domain_to_id)
                    ELSE vocab
        /\ cache' = IF out.error = "" /\ ~hit THEN SaveArray(cache, key, out.examples)
                    ELSE cache
        /\ Record(v, tk, mt, file_path, block_size, evaluate, via, key, hit, out)
        /\ UNCHANGED <<files, args, tokenizer, proc>>

\* load_and_cache_examples(dataset_cls, args, masker, tokenizer, evaluate).
\* TextDataset.__init__ has no masker parameter: the call binds file_path
\* twice and raises TypeError before the constructor runs.
LoadAndCacheExamples(dataset_cls, evaluate) ==
    LET file_path == IF evaluate THEN args.eval_data_file ELSE args.train_data_file
    IN  /\ dataset_cls \in args.classes
        /\ IF dataset_cls = "TextDataset"
           THEN /\ Record(dataset_cls, tokenizer, args.model_type, file_path,
                          args.block_size, evaluate, "load_and_cache_examples",
                          <<>>, FALSE, NoBuild("TypeError", <<>>))
                /\ UNCHANGED <<files, cache, vocab, args, tokenizer, proc>>
           ELSE Construct(dataset_cls, tokenizer, args.model_type, file_path,
                          args.block_size, evaluate, "load_and_cache_examples")

\* TextDataset(model_type, tokenizer, file_path, block_size), called directly
TextDatasetInit(evaluate) ==
    LET file_path == IF evaluate THEN args.eval_data_file ELSE args.train_data_file
    IN  /\ "TextDataset" \in args.classes
        /\ Construct("TextDataset", tokenizer, args.model_type, file_path,
                     args.block_size, evaluate, "TextDataset")

(***************************************************************************)
(* The environment: what happens to the files and to the caller's objects  *)
(* between two constructions.                                              *)
(***************************************************************************)
\* the records of seen that stay valid when the source at path p changes
Invalidate(sn, hits) ==
    [k \in DOMAIN sn |-> IF k \in hits THEN [sn[k] EXCEPT !.valid = FALSE] ELSE sn[k]]

\* the user rewrites a source file
WriteSource(p, lines) ==
    /\ ops > 0
    /\ ops' = ops - 1
    /\ p \in DOMAIN files
    /\ files[p] # lines
    /\ files' = Store(files, p, lines)
    /\ seen' = Invalidate(seen, {k \in DOMAIN seen : seen[k].file_path = p})
    /\ UNCHANGED <<cache, vocab, args, tokenizer, last, proc>>

\* the user deletes a cache file
RemoveCache(k) ==
    /\ ops > 0
    /\ ops' = ops - 1
    /\ k \in DOMAIN cache
    /\ cache' = Remove(cache, k)
    /\ seen' = Invalidate(seen, {i \in DOMAIN seen : seen[i].key = k})
    /\ UNCHANGED <<files, vocab, args, tokenizer, last, proc>>

\* the user deletes a vocabulary file
RemoveVocab(p) ==
    /\ ops > 0
    /\ ops' = ops - 1
    /\ p \in DOMAIN vocab
    /\ vocab' = Remove(vocab, p)
    /\ UNCHANGED <<files, cache, args, tokenizer, last, seen, proc>>

\* the caller passes another tokenizer from now on
ChangeTokenizer(tk) ==
    /\ ops > 0
    /\ ops' = ops - 1
    /\ tk # tokenizer
    /\ tokenizer' = tk
    /\ UNCHANGED <<files, cache, vocab, args, last, seen, proc>>

\* the caller passes another model type from now on
ChangeModelType(mt) ==
    /\ ops > 0
    /\ ops' = ops - 1
    /\ mt # args.model_type
    /\ args' = [args EXCEPT !.model_type = mt]
    /\ UNCHANGED <<files, cache, vocab, tokenizer, last, seen, proc>>

(***************************************************************************)
(* Inputs.                                                                 *)
(***************************************************************************)
TrainFile == <<"d", "/", "t", "r", "a", "i", "n">>

DevFile == <<"d", "/", "d", "e", "v">>

\* an evaluation file whose name holds the letters of "train"
TrainvalFile == <<"d", "/", "t", "r", "a", "i", "n", "v", "a", "l">>

ModelTypes == {<<"b", "e", "r", "t", "-", "b", "a", "s", "e">>, <<"r", "o", "b", "e", "r", "t", "a">>}

\* header words between the identifier and the rating
LaptopsSub == << <<"Electronics", "Computers">>, <<"&">>, <<"Accessories", "Laptops", "Sub">> >>

Header(asin, middle, rating) == << <<asin>> >> \o middle \o << <<rating>> >>

\* a record: its header line and its body lines
Records ==
    { << Header("A1", LaptopsSub, "good"), << <<"fast">> >> >>,
      << Header("A2", LaptopsSub, "good"), << <<"slow">>, <<"nice">> >> >>,
      << Header("A1", LaptopsSub, "bad"), << <<"nice">> >> >>,
      << Header("A1", << <<"Restaurants">> >>, "good"), << <<"fast">>, <<"poor">> >> >>,
      << Header("A1", << <<"Books">> >>, "good"), << <<"fast">> >>, << <<"slow">> >> >>,
      << Header("A2", << <<"Books">> >>, "good"), << <<"poor">> >> >>,
      << Header("A1", << <<"Books">> >>, "bad"), << <<"nice">>, <<"fast">> >> >>,
      << Header("A1", << <<"Toys">> >>, "good"), << <<"slow">> >> >>,
      << Header("A1", << <<"[DOI]">> >>, "good"), << <<"nice">>, <<"poor">> >> >>,
      << Header("A1", << <<"[OTHER]">> >>, "bad"), << <<"poor">>, <<"slow">> >> >> }

\* the lines of a file made of records, a blank line after each but the last
RECURSIVE FileOf(_)
FileOf(recs) ==
    IF recs = <<>> THEN <<>>
    ELSE IF Len(recs) = 1 THEN Head(recs)
    ELSE Head(recs) \o << <<>> >> \o FileOf(Tail(recs))

SourceFiles == UNION {{FileOf(rs) : rs \in [1..n -> Records]} : n \in 0..MaxRecs}

\* the source files of Spec
CorpusTrain ==
    FileOf(<< << Header("A1", << <<"Books">> >>, "good"), << <<"fast">> >>, << <<"slow">> >> >>,
              << Header("A2", << <<"Books">> >>, "good"), << <<"poor">> >> >>,
              << Header("A1", LaptopsSub, "good"), << <<"fast">> >> >>,
              << Header("A2", LaptopsSub, "good"), << <<"slow">>, <<"nice">> >> >>,
              << Header("A1", << <<"Restaurants">> >>, "good"), << <<"fast">>, <<"poor">> >> >> >>)

CorpusDev ==
    FileOf(<< << Header("A2", LaptopsSub, "good"), << <<"slow">>, <<"nice">>, <<"fast">> >> >>,
              << Header("A1", << <<"Toys">> >>, "good"), << <<"slow">> >> >>,
              << Header("A1", << <<"Books">> >>, "bad"), << <<"nice">>, <<"fast">>, <<"poor">> >> >>,
              << Header("A1", << <<"Restaurants">> >>, "good"), << <<"fast">>, <<"poor">>, <<"nice">> >> >> >>)

CorpusEdited ==
    FileOf(<< << Header("A1", << <<"Toys">> >>, "bad"), << <<"poor">>, <<"poor">>, <<"fast">> >> >>,
              << Header("A1", << <<"Restaurants">> >>, "bad"), << <<"slow">>, <<"slow">>, <<"nice">> >> >>,
              << Header("A1", LaptopsSub, "bad"), << <<"nice">>, <<"nice">>, <<"slow">> >> >> >>)

\* the dataset classes one deployment uses together
ClassFamilies ==
    { {"DOIDataset", "LaptopDomainDataset"}, {"RestDomainDataset", "LRDataset"},
      {"DiverseTagEmbDataset", "LRTagEmbDataset"},
      {"LaptopTSDataset", "RestTSDataset"}, {"SkipTagDataset", "TextDataset"} }

NoConstruction ==
    [at |-> 0, via |-> "", variant |-> "", file_path |-> <<>>, block_size |-> 0, evaluate |-> FALSE,
     tokenizer |-> "", key |-> <<>>, hit |-> FALSE, again |-> FALSE,
     before |-> <<>>, out |-> NoBuild("", <<>>)]

BertBase == <<"b", "e", "r", "t", "-", "b", "a", "s", "e">>

(***************************************************************************)
(* Spec: a directory over time.  Constructions through                     *)
(* load_and_cache_examples and TextDataset, with the user's changes to the *)
(* files and to the arguments in between.                                  *)
(***************************************************************************)
Init ==
    /\ \E e \in {DevFile, TrainvalFile} :
           /\ files = Store(Store(<<>>, TrainFile, CorpusTrain), e, CorpusDev)
           /\ \E b \in 1..MaxBlock, cs \in ClassFamilies :
                  args = [model_type |-> BertBase, train_data_file |-> TrainFile,
                          eval_data_file |-> e, block_size |-> b, classes |-> cs]
    /\ cache = <<>>
    /\ vocab = <<>>
    /\ tokenizer = "bert"
    /\ last = NoConstruction
    /\ seen = <<>>
    /\ ops = MaxOps
    /\ proc = <<>>

Next ==
    \/ \E cls \in Variants, evaluate \in BOOLEAN : LoadAndCacheExamples(cls, evaluate)
    \/ \E evaluate \in BOOLEAN : TextDatasetInit(evaluate)
    \/ \E p \in DOMAIN files : WriteSource(p, CorpusEdited)
    \/ \E k \in DOMAIN cache : RemoveCache(k)
    \/ \E p \in DOMAIN vocab : RemoveVocab(p)
    \/ \E tk \in Tokenizers : ChangeTokenizer(tk)
    \/ \E mt \in ModelTypes : ChangeModelType(mt)

Spec == Init /\ [][Next]_vars

(***************************************************************************)
(* SpecBuild: one construction on a cache miss, for every source file of   *)
(* SourceFiles, as the training input (no vocabulary file yet) or as the   *)
(* evaluation input (no vocabulary file, or the one a training run on      *)
(* CorpusTrain has left); and the same for ExampleFile with block size 4.  *)
(***************************************************************************)
TrainedVocab ==
    Store(Store(<<>>, VocabFile("DOIDataset", TrainFile),
                BuildVocabulary("DOIDataset", DomainCorpus("DOIDataset", CorpusTrain))),
          VocabFile("DiverseTagEmbDataset", TrainFile),
          BuildVocabulary("DiverseTagEmbDataset",
                          DomainCorpus("DiverseTagEmbDataset", CorpusTrain)))

\* one record under a Laptops sub-category whose two body lines hold four
\* tokens each
ExampleFile ==
    << Header("A1", LaptopsSub, "good"),
       << <<"fast">>, <<"slow">>, <<"nice">>, <<"poor">> >>,
       << <<"poor">>, <<"nice">>, <<"slow">>, <<"fast">> >> >>

\* that file with the block size that makes two blocks of it
ExampleInput == <<ExampleFile, 4>>

\* the pairs (source file, block size) of SpecBuild
BuildInputs == (SourceFiles \X (1..MaxBlock)) \cup {ExampleInput}

InitBuild ==
    /\ \E in \in BuildInputs :
           /\ \/ files = Store(<<>>, TrainFile, in[1]) /\ vocab = <<>>
              \/ files = Store(<<>>, DevFile, in[1]) /\ vocab \in {<<>>, TrainedVocab}
           /\ args = [model_type |-> BertBase, train_data_file |-> TrainFile,
                      eval_data_file |-> DevFile, block_size |-> in[2],
                      classes |-> Variants]
    /\ cache = <<>>
    /\ tokenizer = "bert"
    /\ last = NoConstruction
    /\ seen = <<>>
    /\ ops = 1
    /\ proc = <<>>

NextBuild ==
    \/ \E cls \in Variants, evaluate \in BOOLEAN :
           /\ (IF evaluate THEN DevFile ELSE TrainFile) \in DOMAIN files
           /\ LoadAndCacheExamples(cls, evaluate)
    \/ \E evaluate \in BOOLEAN :
           /\ (IF evaluate THEN DevFile ELSE TrainFile) \in DOMAIN files
           /\ TextDatasetInit(evaluate)

SpecBuild == InitBuild /\ [][NextBuild]_vars

(***************************************************************************)
(* Vocabulary of the properties.                                           *)
(***************************************************************************)
\* a constructor has run: the most recent call was not the one that raises
\* TypeError before TextDataset.__init__ is entered
Constructed ==
    last.at # 0 /\ ~(last.via = "load_and_cache_examples" /\ last.variant = "TextDataset")

\* the most recent construction ran the chunking loops of a grouped variant
\* to their end
Chunked == last.variant \in GroupedVariants /\ ~last.hit /\ last.out.chunked

\* the (domain, rating) pairs the chunker walks, in order
RECURSIVE PairsOf(_, _)
PairsOf(domain_corpus, domains) ==
    IF domains = <<>> THEN <<>>
    ELSE LET rs == Keys(GetOr(domain_corpus, Head(domains), <<>>))
         IN  [i \in 1..Len(rs) |-> <<Head(domains), rs[i]>>]
                 \o PairsOf(domain_corpus, Tail(domains))

LastPairs == PairsOf(last.out.domain_corpus, ChunkOrder(last.variant, last.out.domain_corpus))

\* the body lines of a pair, identifier after identifier
TextsOf(domain_corpus, pair) ==
    LET asins == Get(Get(domain_corpus, pair[1]), pair[2])
    IN  Flatten([i \in 1..Len(asins) |-> asins[i][2]])

\* the token stream of a pair: the tokens of its lines in processing order
StreamOf(pair) ==
    LET ts == TextsOf(last.out.domain_corpus, pair)
    IN  Flatten([i \in 1..Len(ts) |-> TaggedTokens(last.tokenizer, ts[i])])

\* the blocks emitted for a pair, in emission order
BlocksOf(pair) ==
    SelectSeq(last.out.blocks, LAMBDA b : <<b.domain, b.rating>> = pair)

TokensOf(blocks) == Flatten([i \in 1..Len(blocks) |-> blocks[i].toks])

\* the tokens of all emitted blocks
EmittedTokens == {last.out.blocks[i].toks[j] :
                      i \in 1..Len(last.out.blocks), j \in 1..last.block_size}

\* the identifier a line of a pair was filed under (its place in the pair)
AsinIndexOf(pair, line) ==
    LET asins == Get(Get(last.out.domain_corpus, pair[1]), pair[2])
    IN  CHOOSE k \in 1..Len(asins) :
            \E j \in 1..Len(asins[k][2]) : asins[k][2][j].line = line

(***************************************************************************)
(* C1  Chunking completeness.  In a grouped variant, for every pair        *)
(* (domain, rating) the chunker walks, with L the length of the pair's     *)
(* token stream: exactly L div block_size blocks are emitted for it, each  *)
(* of block_size tokens; their tokens, block after block, are the first    *)
(* (L div block_size) * block_size tokens of the stream in order (so what  *)
(* one identifier leaves over is continued by the next); the last          *)
(* L mod block_size tokens are in no block; and there is one row per       *)
(* block.                                                                  *)
(***************************************************************************)
C1_ChunkingCompleteness ==
    Chunked =>
        /\ Len(last.out.examples) = Len(last.out.blocks)
        /\ \A i \in 1..Len(LastPairs) :
               LET stream == StreamOf(LastPairs[i])
                   blocks == BlocksOf(LastPairs[i])
                   n == Len(stream) \div last.block_size
               IN  /\ Len(blocks) = n
                   /\ \A k \in 1..Len(blocks) : Len(blocks[k].toks) = last.block_size
                   /\ TokensOf(blocks) = SubSeq(stream, 1, n * last.block_size)
                   /\ \A k \in (n * last.block_size + 1)..Len(stream) :
                          stream[k] \notin EmittedTokens

\* a block holds tokens of two identifiers of its pair, and the pair ends
\* with tokens left over
C1_Witness ==
    /\ Chunked
    /\ \E i \in 1..Len(LastPairs) :
           LET blocks == BlocksOf(LastPairs[i])
           IN  /\ Len(StreamOf(LastPairs[i])) % last.block_size # 0
               /\ \E k \in 1..Len(blocks) :
                      AsinIndexOf(LastPairs[i], blocks[k].toks[1].line)
                          # AsinIndexOf(LastPairs[i], blocks[k].toks[last.block_size].line)

(***************************************************************************)
(* C2  No cross-boundary leakage.  In a grouped variant every token of     *)
(* every emitted block comes from a body line filed under the block's own  *)
(* (domain, rating) pair: what a pair leaves over never shows up in a      *)
(* block of a later pair.                                                  *)
(***************************************************************************)
LinesOfPair(pair) ==
    LET ts == TextsOf(last.out.domain_corpus, pair)
    IN  {ts[i].line : i \in 1..Len(ts)}

C2_NoCrossBoundaryLeakage ==
    Chunked =>
        \A i \in 1..Len(last.out.blocks) :
            LET b == last.out.blocks[i]
            IN  \A j \in 1..Len(b.toks) :
                    b.toks[j].line \in LinesOfPair(<<b.domain, b.rating>>)

\* a pair ends with tokens left over and a later pair of the same domain
\* emits a block
C2_Witness ==
    /\ Chunked
    /\ \E i, j \in 1..Len(LastPairs) :
           /\ i < j
           /\ LastPairs[i][1] = LastPairs[j][1]
           /\ Len(StreamOf(LastPairs[i])) % last.block_size # 0
           /\ BlocksOf(LastPairs[j]) # <<>>

(***************************************************************************)
(* C3  Cache idempotence.  When a construction repeats an earlier          *)
(* successful one (same class, same source path, same block size, and for  *)
(* TextDataset the same model type), the source file has not been          *)
(* rewritten and the cache file has not been deleted since, it succeeds    *)
(* and returns the same array row for row, calls tokenizer.tokenize zero   *)
(* times, and neither reads nor writes a vocabulary file.                  *)
(***************************************************************************)
C3_CacheIdempotence ==
    (Constructed /\ last.again) =>
        /\ last.out.error = ""
        /\ last.out.examples = last.before
        /\ last.out.calls = 0
        /\ ~last.out.vocab_read
        /\ ~last.out.vocab_written

\* a grouped build is repeated after its vocabulary file has been deleted
C3_Witness ==
    /\ Constructed
    /\ last.again
    /\ last.variant \in GroupedVariants
    /\ last.before # <<>>
    /\ VocabFile(last.variant, last.file_path) \notin DOMAIN vocab

(***************************************************************************)
(* C4  Cache hit is unconditional.  A construction that finds a file at    *)
(* its cache path, its source file existing, returns the content of that   *)
(* file and leaves every cache and vocabulary file as it is, without       *)
(* calling the tokenizer: in every state the directory can reach, whatever *)
(* the source file, the tokenizer and the vocabulary file have become.     *)
(* For every class but TextDataset the cache path does not depend on the   *)
(* model type.                                                             *)
(***************************************************************************)
C4_CacheHitUnconditional ==
    [][(/\ last'.at # last.at
        /\ last'.via # "load_and_cache_examples" \/ last'.variant # "TextDataset"
        /\ last'.file_path \in DOMAIN files)
       => /\ last'.key = CachedFeaturesFile(last'.variant, args.model_type,
                                            last'.file_path, last'.block_size)
          /\ last'.variant # "TextDataset" =>
                 \A mt \in ModelTypes :
                     CachedFeaturesFile(last'.variant, mt, last'.file_path,
                                        last'.block_size) = last'.key
          /\ last'.key \in DOMAIN cache =>
                 /\ last'.out.error = ""
                 /\ last'.out.examples = cache[last'.key]
                 /\ last'.out.calls = 0
                 /\ cache' = cache
                 /\ vocab' = vocab]_vars

\* a cache hit returns an array that a build from the files as they are now,
\* with the tokenizer as it is now, would not produce
C4_Witness ==
    /\ last.hit
    /\ last.tokenizer = tokenizer
    /\ last.file_path \in DOMAIN files
    /\ OnMiss(last.variant, tokenizer, last.file_path, files[last.file_path],
              last.block_size, vocab).examples # last.out.examples

(***************************************************************************)
(* C5  Cache miss builds and persists.  As the claim reads, for every      *)
(* class whose constructor load_and_cache_examples can call: when no file  *)
(* exists at the cache path and the source yields at least one block, the  *)
(* construction succeeds, a file exists at the cache path afterwards and   *)
(* holds the array that is returned.                                       *)
(***************************************************************************)
\* a construction through load_and_cache_examples on a cache miss, the source
\* file existing
MissViaLoader ==
    /\ Constructed
    /\ last.via = "load_and_cache_examples"
    /\ ~last.hit
    /\ last.file_path \in DOMAIN files

\* the source holds a (domain, rating) pair, under the doi filter of no
\* variant, with at least block_size tokens
SourceHasBlock ==
    LET dc == DomainCorpus("DiverseTagEmbDataset", files[last.file_path])
        ps == PairsOf(dc, Keys(dc))
    IN  \E i \in 1..Len(ps) :
            LET ts == TextsOf(dc, ps[i])
            IN  Len(Flatten([j \in 1..Len(ts) |-> Tokenize(last.tokenizer, ts[j].text)]))
                    >= last.block_size

\* the source yields at least one block: the pipeline of the class has
\* emitted one and has run to its end; for a class without a pipeline, the
\* source holds enough tokens for one
YieldsBlock ==
    IF last.variant \in LoadOnlyVariants THEN SourceHasBlock
    ELSE last.out.chunked /\ last.out.blocks # <<>>

C5_Original ==
    (MissViaLoader /\ YieldsBlock) =>
        /\ last.out.error = ""
        /\ last.key \in DOMAIN cache
        /\ cache[last.key] = last.out.examples

(***************************************************************************)
(* C5 as the code has it.  On a cache miss through load_and_cache_examples *)
(* LaptopTSDataset and RestTSDataset raise Exception and write no file;    *)
(* every other class, when its pipeline runs to its end and emits at least *)
(* one block, tokenizes the source, returns one row per block, and leaves  *)
(* the returned array in a file at the cache path.                         *)
(***************************************************************************)
C5_Amended ==
    MissViaLoader =>
        IF last.variant \in LoadOnlyVariants
        THEN /\ last.out.error = "Exception"
             /\ last.key \notin DOMAIN cache
             /\ cache = <<>>
        ELSE YieldsBlock =>
                 /\ last.out.error = ""
                 /\ last.out.calls > 0
                 /\ Len(last.out.examples) = Len(last.out.blocks)
                 /\ last.key \in DOMAIN cache
                 /\ cache[last.key] = last.out.examples

\* a grouped build of two rows or more has been persisted
C5_Witness ==
    /\ MissViaLoader
    /\ last.variant \in GroupedVariants
    /\ YieldsBlock
    /\ Len(last.out.examples) >= 2
    /\ last.key \in DOMAIN cache

(***************************************************************************)
(* C6  End-to-end example.  For the one-record file under                  *)
(* 'Electronics/Computers & Accessories/Laptops/Sub' whose two body lines  *)
(* hold 2 * 4 tokens, block_size = 4, on a cache miss with the vocabulary  *)
(* file at hand where the class reads one: a class that keeps the Laptops  *)
(* domain returns exactly 2 rows, row k being the framed ids of the four   *)
(* tokens of body line k after its segment id; DOIDataset and              *)
(* RestDomainDataset, which filter the domain out, return an array of      *)
(* exactly 0 rows (without error).                                         *)
(***************************************************************************)
\* the most recent construction is a grouped build of the example
OnExample ==
    /\ Constructed
    /\ ~last.hit
    /\ last.variant \in GroupedVariants
    /\ last.file_path \in DOMAIN files
    /\ <<files[last.file_path], last.block_size>> = ExampleInput
    /\ last.out.error # "FileNotFoundError"

\* the row of a block without its segment id
Framed(row) == SubSeq(row, 2, Len(row))

C6_EndToEndExample ==
    OnExample =>
        /\ last.out.error = ""
        /\ IF last.variant \in {"DOIDataset", "RestDomainDataset"}
           THEN Len(last.out.examples) = 0
           ELSE /\ Len(last.out.examples) = 2
                /\ \A k \in 1..2 :
                       Framed(last.out.examples[k]) =
                           BuildInputsWithSpecialTokens(last.tokenizer,
                               ConvertTokensToIds(last.tokenizer,
                                   Tokenize(last.tokenizer, ExampleFile[k + 1])))

(***************************************************************************)
(* C7  Vocabulary IDs are unique and dense.  Whenever a construction       *)
(* builds the vocabulary (DOIDataset, DiverseTagEmbDataset,                *)
(* LRTagEmbDataset on a training path): distinct keys have distinct IDs,   *)
(* the IDs are exactly 0..n-1 for n keys, and the reserved tokens have the *)
(* IDs they start with ('[DOI]' 0; '[GENERAL]' 0, '[OTHER]' 1), also when  *)
(* a header's domain equals a reserved token.                              *)
(***************************************************************************)
\* the most recent construction has built and written a vocabulary
BuiltVocabulary == Constructed /\ ~last.hit /\ last.out.vocab_written

IdsOf(d) == {d[i][2] : i \in 1..Len(d)}

C7_UniqueDenseIds ==
    BuiltVocabulary =>
        LET d == last.out.domain_to_id
            r == Reserved(last.variant)
        IN  /\ \A i, j \in 1..Len(d) : d[i][2] = d[j][2] => i = j
            /\ IdsOf(d) = 0..(Len(d) - 1)
            /\ \A i \in 1..Len(r) : Get(d, r[i][1]) = r[i][2]

(***************************************************************************)
(* C8  Vocabulary order and stability.  Whenever a construction builds the *)
(* vocabulary, the k-th distinct domain in order of first retained body    *)
(* line of the file has ID r + k - 1, r the number of reserved tokens (so  *)
(* the mapping is a function of the file alone).                           *)
(***************************************************************************)
\* the number of the first body line kept for a domain
FirstLine(domain_corpus, domain) ==
    LET ps == PairsOf(domain_corpus, <<domain>>)
        ls == UNION {{TextsOf(domain_corpus, ps[i])[j].line :
                          j \in 1..Len(TextsOf(domain_corpus, ps[i]))} :
                     i \in 1..Len(ps)}
    IN  CHOOSE l \in ls : \A o \in ls : l <= o

C8_FirstSeenOrder ==
    BuiltVocabulary =>
        LET dc == last.out.domain_corpus
            ds == {dc[i][1] : i \in 1..Len(dc)}
            r == Len(Reserved(last.variant))
            Rank(dom) == 1 + Cardinality({o \in ds : FirstLine(dc, o) < FirstLine(dc, dom)})
        IN  \A dom \in ds :
                /\ Has(last.out.domain_to_id, dom)
                /\ Get(last.out.domain_to_id, dom) = r + Rank(dom) - 1

(***************************************************************************)
(* C9  Vocabulary is written only for the training split.  A construction  *)
(* that processes the evaluation input (evaluate = True, eval_data_file)   *)
(* writes no vocabulary file, whatever the name of the evaluation file.    *)
(***************************************************************************)
C9_WrittenOnlyForTraining ==
    (Constructed /\ last.evaluate) => ~last.out.vocab_written

(***************************************************************************)
(* C10  Unknown domain fails.  When DOIDataset processes a non-training    *)
(* input on a cache miss, the vocabulary file is there, and the grouped    *)
(* corpus holds a domain that the loaded vocabulary does not, the          *)
(* construction fails with an error and returns no rows, however few       *)
(* tokens the domain has.                                                  *)
(***************************************************************************)
\* DOIDataset has loaded a vocabulary that lacks a domain of its corpus
UnknownDomainLoaded ==
    /\ Constructed
    /\ ~last.hit
    /\ last.variant = "DOIDataset"
    /\ last.out.vocab_read
    /\ last.out.error # "FileNotFoundError"
    /\ last.file_path \in DOMAIN files
    /\ \E i \in 1..Len(last.out.domain_corpus) :
           ~Has(last.out.domain_to_id, last.out.domain_corpus[i][1])

C10_UnknownDomainFails ==
    UnknownDomainLoaded => (last.out.error # "" /\ last.out.examples = <<>>)

(***************************************************************************)
(* C11  'Other' fallback.  In DiverseTagEmbDataset and LRTagEmbDataset, on *)
(* a build that has its vocabulary: no KeyError is raised, the build       *)
(* succeeds as soon as one block is emitted, and the first value of every  *)
(* row (as a 16-bit value) is the vocabulary's ID of the block's domain    *)
(* when the domain is a key of the vocabulary and the ID of '[OTHER]'      *)
(* when it is not.                                                         *)
(***************************************************************************)
TagEmbVariants == {"DiverseTagEmbDataset", "LRTagEmbDataset"}

\* the most recent construction is a build of a tag-embedding variant that
\* has found or built its vocabulary
TagEmbBuild ==
    /\ Constructed
    /\ ~last.hit
    /\ last.variant \in TagEmbVariants
    /\ last.file_path \in DOMAIN files
    /\ last.out.error # "FileNotFoundError"

C11_OtherFallback ==
    TagEmbBuild =>
        LET d == last.out.domain_to_id
        IN  /\ last.out.error # "KeyError"
            /\ last.out.blocks # <<>> => last.out.error = ""
            /\ last.out.error = "" =>
                   /\ Len(last.out.examples) = Len(last.out.blocks)
                   /\ \A i \in 1..Len(last.out.blocks) :
                          last.out.examples[i][1] =
                              Uint16Row(<< IF Has(d, last.out.blocks[i].domain)
                                           THEN Get(d, last.out.blocks[i].domain)
                                           ELSE Get(d, TokOTHER) >>)[1]

\* a row of a domain that the loaded vocabulary does not hold
C11_Witness ==
    /\ TagEmbBuild
    /\ last.out.error = ""
    /\ \E i \in 1..Len(last.out.blocks) :
           /\ ~Has(last.out.domain_to_id, last.out.blocks[i].domain)
           /\ last.out.examples[i][1] = Get(last.out.domain_to_id, TokOTHER)

(***************************************************************************)
(* C12  Row layout.  As the claim reads, in the variants with a domain     *)
(* segment every row is the framing applied to the segment ID followed by  *)
(* the block's token IDs, so that the framing markers enclose the segment  *)
(* ID.                                                                     *)
(***************************************************************************)
\* the most recent construction is a grouped build that has returned rows
GroupedRows ==
    /\ Constructed
    /\ ~last.hit
    /\ last.variant \in GroupedVariants
    /\ last.out.error = ""

\* the token IDs of the i-th emitted block
BlockIds(i) ==
    ConvertTokensToIds(last.tokenizer,
        [j \in 1..Len(last.out.blocks[i].toks) |-> last.out.blocks[i].toks[j].tok])

C12_Original ==
    GroupedRows =>
        \A i \in 1..Len(last.out.examples) :
            \E seg \in IdsOf(last.out.domain_to_id) :
                last.out.examples[i] =
                    Uint16Row(BuildInputsWithSpecialTokens(last.tokenizer,
                                                           <<seg>> \o BlockIds(i)))

(***************************************************************************)
(* C12 as the code has it.  Every row of a variant with a domain segment   *)
(* is one segment ID (an ID of the vocabulary) followed by the framing of  *)
(* the block's block_size token IDs: the segment ID comes before the       *)
(* opening marker, the markers enclose the token IDs only, and the row has *)
(* block_size + 1 values more than the framing adds.                       *)
(***************************************************************************)
C12_Amended ==
    GroupedRows =>
        /\ Len(last.out.examples) = Len(last.out.blocks)
        /\ \A i \in 1..Len(last.out.examples) :
               /\ \E seg \in IdsOf(last.out.domain_to_id) :
                      last.out.examples[i] =
                          Uint16Row(<<seg>> \o
                              BuildInputsWithSpecialTokens(last.tokenizer, BlockIds(i)))
               /\ Len(BlockIds(i)) = last.block_size
               /\ Len(last.out.examples[i]) =
                      1 + Len(BuildInputsWithSpecialTokens(last.tokenizer, BlockIds(i)))

\* rows with a segment ID other than 0, of blocks of two tokens or more
C12_Witness ==
    /\ GroupedRows
    /\ last.block_size >= 2
    /\ \E i \in 1..Len(last.out.examples) : last.out.examples[i][1] > 0

(***************************************************************************)
(* The constructor step by step.  proc[i] is the construction process i    *)
(* is in: pc is the place in __init__, the other fields are its local      *)
(* variables.  The places: "exists" (before os.path.exists), "load",       *)
(* "open" (before the source is read), "for" (at the head of the loop over *)
(* the texts), "while" (at the head of the loop over the buffer),          *)
(* "concat", "save", and the ends "returned" and "failed".                 *)
(***************************************************************************)
MaxRows == 3       \* rows a process records; further rows are counted as the last

\* buffer[:n] and buffer[n:] of a Python list
SliceTo(buffer, n) ==
    IF n >= 0 THEN SubSeq(buffer, 1, IF n < Len(buffer) THEN n ELSE Len(buffer))
    ELSE SubSeq(buffer, 1, Len(buffer) + n)

SliceFrom(buffer, n) ==
    IF n >= 0 THEN SubSeq(buffer, n + 1, Len(buffer))
    ELSE SubSeq(buffer, (IF Len(buffer) + n > 0 THEN Len(buffer) + n ELSE 0) + 1, Len(buffer))

\* the texts the loops of a grouped variant go through, in order, each with
\* its pair; fresh marks the first text of a pair (buffer = deque())
WorkOf(v, domain_corpus) ==
    LET ps == PairsOf(domain_corpus, ChunkOrder(v, domain_corpus))
    IN  Flatten([i \in 1..Len(ps) |->
            LET ts == TextsOf(domain_corpus, ps[i])
            IN  [j \in 1..Len(ts) |->
                    [domain |-> ps[i][1], rating |-> ps[i][2], text |-> ts[j],
                     fresh |-> j = 1]]])

\* the texts TextDataset (every non-blank line) and SkipTagDataset (every
\* non-blank line but the first after a blank one) tokenize, in order
RECURSIVE PlainWork(_, _, _, _)
PlainWork(v, lines, n, tag_on) ==
    IF n > Len(lines) THEN <<>>
    ELSE IF lines[n] = <<>> THEN PlainWork(v, lines, n + 1, TRUE)
    ELSE IF v = "SkipTagDataset" /\ tag_on THEN PlainWork(v, lines, n + 1, FALSE)
    ELSE << [domain |-> <<>>, rating |-> <<>>, text |-> [text |-> lines[n], line |-> n],
             fresh |-> FALSE] >> \o PlainWork(v, lines, n + 1, FALSE)

\* a process that has not called the constructor yet
NotStarted ==
    [pc |-> "idle", variant |-> "", file_path |-> <<>>, block_size |-> 0, key |-> <<>>,
     work |-> <<>>, buffer |-> <<>>, domain |-> <<>>, domain_to_id |-> <<>>,
     rows |-> <<>>, error |-> "", wrote |-> {}, missed |-> FALSE,
     domain_corpus |-> <<>>, more |-> 0]

\* dataset_cls(...) is called: the assert, the cache path
Call(i, v, file_path, block_size) ==
    /\ proc[i].pc = "idle"
    /\ proc' = [proc EXCEPT ![i] =
           IF file_path \notin DOMAIN files
           THEN [proc[i] EXCEPT !.pc = "failed", !.error = "AssertionError", !.variant = v]
           ELSE [proc[i] EXCEPT !.pc = "exists", !.variant = v, !.file_path = file_path,
                          !.block_size = block_size,
                          !.key = CachedFeaturesFile(v, args.model_type, file_path,
                                                     block_size)]]
    /\ UNCHANGED <<files, cache, vocab, args, tokenizer, last, seen, ops>>

\* if os.path.exists(cached_features_file)
Exists(i) ==
    /\ proc[i].pc = "exists"
    /\ proc' = [proc EXCEPT ![i] =
           IF CacheHit(proc[i].key, cache) THEN [proc[i] EXCEPT !.pc = "load"]
           ELSE IF proc[i].variant \in LoadOnlyVariants
           THEN [proc[i] EXCEPT !.pc = "failed", !.error = "Exception", !.missed = TRUE]
           ELSE [proc[i] EXCEPT !.pc = "open", !.missed = TRUE]]
    /\ UNCHANGED <<files, cache, vocab, args, tokenizer, last, seen, ops>>

\* self.examples = np.load(cached_features_file)
Load(i) ==
    /\ proc[i].pc = "load"
    /\ proc' = [proc EXCEPT ![i] =
           IF proc[i].key \in DOMAIN cache
           THEN [proc[i] EXCEPT !.pc = "returned", !.rows = OnHit(cache[proc[i].key]).examples]
           ELSE [proc[i] EXCEPT !.pc = "failed", !.error = "FileNotFoundError"]]
    /\ UNCHANGED <<files, cache, vocab, args, tokenizer, last, seen, ops>>

\* the else branch up to the loops: the source is read and grouped, the
\* vocabulary is built and written or loaded.  The field domain_corpus holds
\* the grouped corpus as it is when the file has been read.
Open(i) ==
    /\ proc[i].pc = "open"
    /\ LET v == proc[i].variant
           lines == files[proc[i].file_path]
           vf == VocabFile(v, proc[i].file_path)
           domain_corpus == DomainCorpus(v, lines)
       IN  IF v \notin GroupedVariants
           THEN /\ proc' = [proc EXCEPT ![i] =
                       [proc[i] EXCEPT !.pc = "for", !.work = PlainWork(v, lines, 1, TRUE)]]
                /\ vocab' = vocab
           ELSE IF WritesVocabulary(v, proc[i].file_path)
           THEN /\ proc' = [proc EXCEPT ![i] =
                       [proc[i] EXCEPT !.pc = "for", !.work = WorkOf(v, domain_corpus),
                                       !.domain_corpus = domain_corpus,
                                       !.domain_to_id = BuildVocabulary(v, domain_corpus),
                                       !.wrote = @ \cup {vf}]]
                /\ vocab' = SaveVocabulary(vocab, vf, BuildVocabulary(v, domain_corpus))
           ELSE IF vf \notin DOMAIN vocab
           THEN /\ proc' = [proc EXCEPT ![i] =
                       [proc[i] EXCEPT !.pc = "failed", !.error = "FileNotFoundError"]]
                /\ vocab' = vocab
           ELSE /\ proc' = [proc EXCEPT ![i] =
                       [proc[i] EXCEPT !.pc = "for", !.work = WorkOf(v, domain_corpus),
                                       !.domain_corpus = domain_corpus,
                                       !.domain_to_id = vocab[vf]]]
                /\ vocab' = vocab
    /\ UNCHANGED <<files, cache, args, tokenizer, last, seen, ops>>

\* one pass of "for text in ...": the text is tokenized into the buffer; at
\* the end of the texts, on to np.concatenate
ForText(i) ==
    /\ proc[i].pc = "for"
    /\ proc' = [proc EXCEPT ![i] =
           IF proc[i].work = <<>> THEN [proc[i] EXCEPT !.pc = "concat"]
           ELSE [proc[i] EXCEPT !.pc = "while",
                          !.work = Tail(@),
                          !.domain = proc[i].work[1].domain,
                          !.buffer = (IF proc[i].work[1].fresh THEN NewBuffer(@) ELSE @)
                                         \o TaggedTokens(tokenizer, proc[i].work[1].text)]]
    /\ UNCHANGED <<files, cache, vocab, args, tokenizer, last, seen, ops>>

\* self.examples.append(row), up to MaxRows rows; of the rows beyond them the
\* field more keeps the parity of their number
AddRow(rows, row) == IF Len(rows) < MaxRows THEN Append(rows, row) ELSE rows

\* one pass of "while len(buffer) >= block_size"
WhileBlock(i) ==
    /\ proc[i].pc = "while"
    /\ Len(proc[i].buffer) >= proc[i].block_size
    /\ LET p == proc[i]
           grouped == p.variant \in GroupedVariants
           block == IF grouped THEN SubSeq(p.buffer, 1, p.block_size)
                    ELSE SliceTo(p.buffer, p.block_size)
           seg == IF grouped THEN DomainSeg(p.variant, p.domain_to_id, p.domain)
                  ELSE [err |-> "", id |-> 0]
           row == IF grouped THEN Uint16Row(InputIds(tokenizer, seg.id, block))
                  ELSE Uint16Row(BuildInputsWithSpecialTokens(tokenizer,
                           ConvertTokensToIds(tokenizer,
                               [j \in 1..Len(block) |-> block[j].tok])))
       IN  proc' = [proc EXCEPT ![i] =
               IF seg.err # ""
               THEN [p EXCEPT !.pc = "failed", !.error = seg.err,
                              !.buffer = PopBlock(@, p.block_size)]
               ELSE [p EXCEPT !.rows = AddRow(@, row),
                              !.more = IF Len(p.rows) < MaxRows THEN @ ELSE 1 - @,
                              !.buffer = IF grouped THEN PopBlock(@, p.block_size)
                                         ELSE SliceFrom(@, p.block_size)]]
    /\ UNCHANGED <<files, cache, vocab, args, tokenizer, last, seen, ops>>

\* the while condition is false: back to the loop over the texts
WhileExit(i) ==
    /\ proc[i].pc = "while"
    /\ Len(proc[i].buffer) < proc[i].block_size
    /\ proc' = [proc EXCEPT ![i] = [proc[i] EXCEPT !.pc = "for"]]
    /\ UNCHANGED <<files, cache, vocab, args, tokenizer, last, seen, ops>>

\* self.examples = np.concatenate(self.examples)
Concat(i) ==
    /\ proc[i].pc = "concat"
    /\ proc' = [proc EXCEPT ![i] =
           IF proc[i].rows = <<>>
           THEN [proc[i] EXCEPT !.pc = "failed",
                          !.error = "ValueError: need at least one array to concatenate"]
           ELSE [proc[i] EXCEPT !.pc = "save"]]
    /\ UNCHANGED <<files, cache, vocab, args, tokenizer, last, seen, ops>>

\* np.save(cached_features_file, self.examples); last notes who saved
Save(i) ==
    /\ proc[i].pc = "save"
    /\ cache' = SaveArray(cache, proc[i].key, proc[i].rows)
    /\ proc' = [proc EXCEPT ![i] = [proc[i] EXCEPT !.pc = "returned", !.wrote = @ \cup {proc[i].key}]]
    /\ last' = [NoConstruction EXCEPT !.at = i, !.variant = proc[i].variant,
                                      !.file_path = proc[i].file_path,
                                      !.block_size = proc[i].block_size,
                                      !.key = proc[i].key,
                                      !.out = NoBuild("", proc[i].rows)]
    /\ UNCHANGED <<files, vocab, args, tokenizer, seen, ops>>

\* one step of process i
Step(i) ==
    \/ Exists(i)
    \/ Load(i)
    \/ Open(i)
    \/ ForText(i)
    \/ WhileBlock(i)
    \/ WhileExit(i)
    \/ Concat(i)
    \/ Save(i)

(***************************************************************************)
(* SpecLoop: one process, one construction, taken step by step, for        *)
(* block sizes from -1 to MaxBlock.  Once the source has been read, every  *)
(* step the process can take is taken in the end (the interpreter does not *)
(* stop by itself).                                                        *)
(***************************************************************************)
\* the source files of SpecLoop: one record each, and the empty file
LoopFiles == {FileOf(<<r>>) : r \in Records} \cup {ExampleFile, <<>>}

\* an array left by an earlier run
Prebuilt == << <<0, 101, 2001, 102>> >>

InitLoop ==
    /\ \E f \in LoopFiles :
           \/ files = Store(<<>>, TrainFile, f) /\ vocab = <<>>
           \/ files = Store(<<>>, DevFile, f) /\ vocab \in {<<>>, TrainedVocab}
    /\ \E b \in (-1)..MaxBlock :
           args = [model_type |-> BertBase, train_data_file |-> TrainFile,
                   eval_data_file |-> DevFile, block_size |-> b, classes |-> Variants]
    /\ \E c \in {<<>>, Store(<<>>, CachedFeaturesFile("LaptopTSDataset", BertBase, DevFile, 1),
                             Prebuilt)} : cache = c
    /\ tokenizer = "bert"
    /\ last = NoConstruction
    /\ seen = <<>>
    /\ ops = 0
    /\ proc = <<NotStarted>>

NextLoop ==
    \/ \E v \in Variants, evaluate \in BOOLEAN :
           Call(1, v, IF evaluate THEN args.eval_data_file ELSE args.train_data_file,
                args.block_size)
    \/ Exists(1)
    \/ Load(1)
    \/ Open(1)
    \/ ForText(1)
    \/ WhileBlock(1)
    \/ WhileExit(1)
    \/ Concat(1)
    \/ Save(1)

\* a step of the process after the source has been read
Run(i) ==
    \/ ForText(i)
    \/ WhileBlock(i)
    \/ WhileExit(i)
    \/ Concat(i)
    \/ Save(i)

SpecLoop == InitLoop /\ [][NextLoop]_vars /\ WF_vars(Run(1))

\* the steps and the one-step build agree: for a block size of 1 or more, a
\* process that has ended after a cache miss has the error, and the rows (up
\* to MaxRows), of OnMiss
LoopAgreesWithBuild ==
    (proc[1].pc \in {"returned", "failed"} /\ proc[1].missed /\ proc[1].block_size >= 1) =>
        LET p == proc[1]
            o == OnMiss(p.variant, tokenizer, p.file_path, files[p.file_path],
                        p.block_size, vocab)
        IN  /\ o.error = p.error
            /\ p.error = "" =>
                   p.rows = SubSeq(o.examples, 1,
                                   IF Len(o.examples) < MaxRows THEN Len(o.examples)
                                   ELSE MaxRows)

(***************************************************************************)
(* C13  Termination.  A construction that has found no cache file and has  *)
(* read its source eventually returns a dataset or fails with an error,    *)
(* for every source file and every block_size from -1 up: the loops over   *)
(* the texts and over the buffer come to an end.                           *)
(***************************************************************************)
C13_Termination ==
    [](proc[1].pc = "for" => <>(proc[1].pc \in {"returned", "failed"}))

(***************************************************************************)
(* SpecParse: one construction on a cache miss over every sequence of at   *)
(* most MaxLines lines drawn from a blank line, two header-like lines and  *)
(* a text line, in any order (blank lines first, last, and in runs).       *)
(***************************************************************************)
MaxLines == 4      \* lines per source file of SpecParse

ParseLines ==
    { <<>>,
      Header("A1", << <<"Books">> >>, "good"),
      Header("A2", LaptopsSub, "bad"),
      << <<"fast">>, <<"slow">> >> }

ParseFiles == UNION {[1..n -> ParseLines] : n \in 0..MaxLines}

InitParse ==
    /\ \E f \in ParseFiles :
           \/ files = Store(<<>>, TrainFile, f) /\ vocab = <<>>
           \/ files = Store(<<>>, DevFile, f) /\ vocab = TrainedVocab
    /\ args = [model_type |-> BertBase, train_data_file |-> TrainFile,
               eval_data_file |-> DevFile, block_size |-> 1, classes |-> Variants]
    /\ cache = <<>>
    /\ tokenizer = "bert"
    /\ last = NoConstruction
    /\ seen = <<>>
    /\ ops = 1
    /\ proc = <<>>

SpecParse == InitParse /\ [][NextBuild]_vars

(***************************************************************************)
(* C14  Record boundaries.  With IsHeader(n): line n is non-blank and is   *)
(* the first non-blank line of the file or follows a blank line, and       *)
(* IsBody(n): line n is non-blank and not a header.  In a grouped variant  *)
(* every text of the grouped corpus is a body line, filed under the        *)
(* identifier, rating and domain of the nearest header above it, in file   *)
(* order per identifier; and every body line whose header passes the       *)
(* variant's filter (its domain filter, or its pair holding fewer          *)
(* identifiers than the cap) is in the corpus.  In SkipTagDataset the      *)
(* texts tokenized are exactly the body lines.  Runs of blank lines make   *)
(* no difference.                                                          *)
(***************************************************************************)
\* the lines of the source file of the most recent construction
LastLines == files[last.file_path]

IsHeader(lines, n) ==
    /\ lines[n] # <<>>
    /\ (\A k \in 1..(n - 1) : lines[k] = <<>>) \/ lines[n - 1] = <<>>

IsBody(lines, n) == lines[n] # <<>> /\ ~IsHeader(lines, n)

\* the nearest header above body line n
HeaderOf(lines, n) ==
    CHOOSE h \in 1..(n - 1) :
        IsHeader(lines, h) /\ \A k \in (h + 1)..(n - 1) : ~IsHeader(lines, k)

\* the entries of a grouped corpus: <<domain, rating, identifier, texts>>
EntriesOf(domain_corpus) ==
    UNION {UNION {{<<domain_corpus[i][1], domain_corpus[i][2][j][1],
                     domain_corpus[i][2][j][2][k][1], domain_corpus[i][2][j][2][k][2]>> :
                       k \in 1..Len(domain_corpus[i][2][j][2])} :
                  j \in 1..Len(domain_corpus[i][2])} :
           i \in 1..Len(domain_corpus)}

\* whether a variant keeps all the body lines under a header: by the domain,
\* or by the number of identifiers its pair holds in the end
PassesFilter(v, domain_corpus, domain, rating) ==
    CASE v = "DOIDataset" -> domain \notin {Laptops, Restaurants}
      [] v = "LaptopDomainDataset" -> domain = Laptops
      [] v = "RestDomainDataset" -> domain = Restaurants
      [] v = "LRDataset" -> domain \in {Laptops, Restaurants}
      [] v = "DiverseTagEmbDataset" ->
             Cardinality({e \in EntriesOf(domain_corpus) : e[1] = domain /\ e[2] = rating})
                 < DiverseCap
      [] v = "LRTagEmbDataset" ->
             Cardinality({e \in EntriesOf(domain_corpus) : e[1] = domain /\ e[2] = rating})
                 < LRCap

\* whether body line n belongs to an entry
BelongsTo(lines, n, e) ==
    /\ IsBody(lines, n)
    /\ HeaderDomain(lines[HeaderOf(lines, n)]) = e[1]
    /\ HeaderRating(lines[HeaderOf(lines, n)]) = e[2]
    /\ HeaderAsin(lines[HeaderOf(lines, n)]) = e[3]

C14_RecordBoundaries ==
    (Constructed /\ ~last.hit /\ last.file_path \in DOMAIN files) =>
        /\ last.variant \in GroupedVariants =>
               LET es == EntriesOf(last.out.domain_corpus)
               IN  /\ \A e \in es : \A k \in 1..Len(e[4]) :
                          /\ BelongsTo(LastLines, e[4][k].line, e)
                          /\ e[4][k].text = LastLines[e[4][k].line]
                          /\ k > 1 => e[4][k - 1].line < e[4][k].line
                   /\ \A n \in 1..Len(LastLines) :
                          (/\ IsBody(LastLines, n)
                           /\ PassesFilter(last.variant, last.out.domain_corpus,
                                  HeaderDomain(LastLines[HeaderOf(LastLines, n)]),
                                  HeaderRating(LastLines[HeaderOf(LastLines, n)])))
                              => \E e \in es : \E k \in 1..Len(e[4]) : e[4][k].line = n
        /\ last.variant = "SkipTagDataset" =>
               {last.out.blocks[i].toks[1].line : i \in 1..Len(last.out.blocks)}
                   = {n \in 1..Len(LastLines) : IsBody(LastLines, n)}

\* a file that starts with a run of blank lines; its first non-blank line
\* reads like a text and is the header, the line after it reads like a header
\* and is kept as a body line
C14_Witness ==
    /\ Constructed /\ ~last.hit /\ last.file_path \in DOMAIN files
    /\ last.variant \in GroupedVariants
    /\ Len(LastLines) = MaxLines
    /\ LastLines[1] = <<>> /\ LastLines[2] = <<>>
    /\ Len(LastLines[3]) = 2
    /\ Len(LastLines[4]) > 2
    /\ \E e \in EntriesOf(last.out.domain_corpus) : e[4][1].line = MaxLines

(***************************************************************************)
(* SpecCap: one process constructs a tag-embedding variant on a cache miss *)
(* over a file with about DiverseCap identifiers under one (domain,        *)
(* rating) pair, up to the end of the reading: n records with identifiers  *)
(* 1..n and b body lines each, then a record of one body line under        *)
(* identifier r (r = 0: no such record), then a record of another pair.    *)
(* LRCap identifiers are out of the reach of these files: what is checked  *)
(* of LRTagEmbDataset is its behaviour below its cap.                      *)
(***************************************************************************)
\* the record of identifier i with b body lines under Books, good
CapRecord(i, b) ==
    << Header(ToString(i), << <<"Books">> >>, "good") >> \o [j \in 1..b |-> << <<"fast">> >>]

CapFile(n, b, r) ==
    FileOf([i \in 1..n |-> CapRecord(i, b)]
           \o (IF r = 0 THEN <<>> ELSE << CapRecord(r, 1) >>)
           \o << << Header("A1", LaptopsSub, "bad"), << <<"nice">> >> >> >>)

CapFiles ==
    {CapFile(n, b, r) : n \in (DiverseCap - 1)..(DiverseCap + 1), b \in 1..2,
                        r \in {0, 1, DiverseCap, DiverseCap + 2}}

InitCap ==
    /\ \E f \in CapFiles :
           \/ files = Store(<<>>, TrainFile, f) /\ vocab = <<>>
           \/ files = Store(<<>>, DevFile, f) /\ vocab = TrainedVocab
    /\ args = [model_type |-> BertBase, train_data_file |-> TrainFile,
               eval_data_file |-> DevFile, block_size |-> MaxBlock, classes |-> Variants]
    /\ cache = <<>>
    /\ tokenizer = "bert"
    /\ last = NoConstruction
    /\ seen = <<>>
    /\ ops = 0
    /\ proc = <<NotStarted>>

NextCap ==
    \/ \E v \in TagEmbVariants, file_path \in DOMAIN files :
           Call(1, v, file_path, args.block_size)
    \/ Exists(1)
    \/ Open(1)

SpecCap == InitCap /\ [][NextCap]_vars

\* process 1 has read and grouped its source file in a tag-embedding variant
CapRead == proc[1].pc = "for" /\ proc[1].variant \in TagEmbVariants

\* the lines process 1 reads
CapLines == files[proc[1].file_path]

\* the cap of a tag-embedding variant
CapOf(v) == IF v = "DiverseTagEmbDataset" THEN DiverseCap ELSE LRCap

\* the distinct identifiers that have a body line under a pair among the
\* lines lo..hi, in file order, after those of acc
RECURSIVE FirstIdentifiers(_, _, _, _, _)
FirstIdentifiers(lines, lo, hi, pair, acc) ==
    IF lo > hi THEN acc
    ELSE IF lo = hi
    THEN IF ~IsBody(lines, lo) THEN acc
         ELSE LET h == lines[HeaderOf(lines, lo)]
              IN  IF /\ <<HeaderDomain(h), HeaderRating(h)>> = pair
                     /\ \A k \in 1..Len(acc) : acc[k] # HeaderAsin(h)
                  THEN Append(acc, HeaderAsin(h)) ELSE acc
    ELSE LET mid == (lo + hi) \div 2
             first == FirstIdentifiers(lines, lo, mid, pair, acc)
         IN  IF Len(first) >= 0
             THEN FirstIdentifiers(lines, mid + 1, hi, pair, first)
             ELSE first

(***************************************************************************)
(* C15  Cap, accumulation.  In DiverseTagEmbDataset and LRTagEmbDataset,   *)
(* after the file has been read, for every body line: when its pair tracks *)
(* its identifier, the line is in that identifier's list (also a line that *)
(* comes after the pair has reached the cap); and when its pair does not   *)
(* track its identifier, the pair tracks cap identifiers.                  *)
(***************************************************************************)
C15_CapAccumulation ==
    CapRead =>
        \A n \in 1..Len(CapLines) :
            IsBody(CapLines, n) =>
                LET h == CapLines[HeaderOf(CapLines, n)]
                    held == GetOr(GetOr(proc[1].domain_corpus, HeaderDomain(h), <<>>),
                                  HeaderRating(h), <<>>)
                IN  IF Has(held, HeaderAsin(h))
                    THEN \E k \in 1..Len(Get(held, HeaderAsin(h))) :
                             Get(held, HeaderAsin(h))[k].line = n
                    ELSE Len(held) >= CapOf(proc[1].variant)

(***************************************************************************)
(* C16  Cap, bound.  In DiverseTagEmbDataset and LRTagEmbDataset, after    *)
(* the file has been read, the pairs of the grouped corpus are the pairs   *)
(* that have a body line, and the identifiers a pair holds are, in order,  *)
(* the first cap distinct identifiers that have a body line under it (all  *)
(* of them when there are fewer): never more than cap.                     *)
(***************************************************************************)
C16_CapBound ==
    CapRead =>
        LET dc == proc[1].domain_corpus
            ps == PairsOf(dc, Keys(dc))
            cap == CapOf(proc[1].variant)
        IN  /\ \A n \in 1..Len(CapLines) :
                   IsBody(CapLines, n) =>
                       \E i \in 1..Len(ps) :
                           ps[i] = <<HeaderDomain(CapLines[HeaderOf(CapLines, n)]),
                                     HeaderRating(CapLines[HeaderOf(CapLines, n)])>>
            /\ \A i \in 1..Len(ps) :
                   LET held == Keys(Get(Get(dc, ps[i][1]), ps[i][2]))
                       first == FirstIdentifiers(CapLines, 1, Len(CapLines), ps[i], <<>>)
                   IN  /\ Len(held) <= cap
                       /\ held = SubSeq(first, 1, IF Len(first) < cap THEN Len(first) ELSE cap)

\* a pair holds cap identifiers and the file has more for it
C16_Witness ==
    /\ CapRead
    /\ \E i \in 1..Len(proc[1].domain_corpus) :
           \E j \in 1..Len(proc[1].domain_corpus[i][2]) :
               /\ Len(proc[1].domain_corpus[i][2][j][2]) = CapOf(proc[1].variant)
               /\ Len(FirstIdentifiers(CapLines, 1, Len(CapLines),
                        <<proc[1].domain_corpus[i][1], proc[1].domain_corpus[i][2][j][1]>>,
                        <<>>)) > CapOf(proc[1].variant)

(***************************************************************************)
(* SpecOrder: one construction on a cache miss over files of up to         *)
(* MaxOrderRecs records, among them two records of identifier A1 under     *)
(* Books, good and one of identifier A2 under the same pair.               *)
(***************************************************************************)
MaxOrderRecs == 3   \* records per source file of SpecOrder

OrderRecords ==
    { << Header("A1", << <<"Books">> >>, "good"), << <<"fast">> >> >>,
      << Header("A2", << <<"Books">> >>, "good"), << <<"slow">>, <<"nice">> >> >>,
      << Header("A1", << <<"Books">> >>, "good"), << <<"poor">> >> >>,
      << Header("A1", LaptopsSub, "good"), << <<"nice">> >> >> }

OrderFiles == UNION {{FileOf(rs) : rs \in [1..n -> OrderRecords]} : n \in 1..MaxOrderRecs}

InitOrder ==
    /\ \E f \in OrderFiles, b \in 1..MaxBlock :
           /\ \/ files = Store(<<>>, TrainFile, f) /\ vocab = <<>>
              \/ files = Store(<<>>, DevFile, f) /\ vocab = TrainedVocab
           /\ args = [model_type |-> BertBase, train_data_file |-> TrainFile,
                      eval_data_file |-> DevFile, block_size |-> b, classes |-> Variants]
    /\ cache = <<>>
    /\ tokenizer = "bert"
    /\ last = NoConstruction
    /\ seen = <<>>
    /\ ops = 1
    /\ proc = <<>>

SpecOrder == InitOrder /\ [][NextBuild]_vars

\* token s comes before token t in the source file
Before(s, t) == s.line < t.line \/ (s.line = t.line /\ s.pos < t.pos)

\* no token is in two blocks, or twice in one
NoTokenTwice ==
    \A i, j \in 1..Len(last.out.blocks) :
        \A k, l \in 1..Len(last.out.blocks[i].toks) :
            <<i, k>> # <<j, l>> => last.out.blocks[i].toks[k] # last.out.blocks[j].toks[l]

(***************************************************************************)
(* C17  Strict text order, as stated.  In a grouped variant, for every     *)
(* pair the chunker walks, the tokens of the pair's blocks, block after    *)
(* block, are in the order of the source file; and no token is in two      *)
(* blocks.                                                                 *)
(***************************************************************************)
C17_Original ==
    Chunked =>
        /\ \A i \in 1..Len(LastPairs) :
               LET toks == TokensOf(BlocksOf(LastPairs[i]))
               IN  \A k, l \in 1..Len(toks) : k < l => Before(toks[k], toks[l])
        /\ NoTokenTwice

(***************************************************************************)
(* C17  Strict text order, amended.  The tokens of a pair's blocks, block  *)
(* after block, are in the order of the grouped corpus: identifier after   *)
(* identifier in the order in which the identifiers are first filed under  *)
(* the pair, and in file order within one identifier (so in file order     *)
(* throughout when the lines of no identifier of the pair lie between the  *)
(* lines of another); and no token is in two blocks.                       *)
(***************************************************************************)
C17_Amended ==
    Chunked =>
        /\ \A i \in 1..Len(LastPairs) :
               LET toks == TokensOf(BlocksOf(LastPairs[i]))
                   at(t) == AsinIndexOf(LastPairs[i], t.line)
                   contiguous == \A m, n \in LinesOfPair(LastPairs[i]) :
                                     m < n => AsinIndexOf(LastPairs[i], m)
                                                  <= AsinIndexOf(LastPairs[i], n)
               IN  /\ \A k, l \in 1..Len(toks) :
                          k < l => \/ at(toks[k]) < at(toks[l])
                                   \/ at(toks[k]) = at(toks[l]) /\ Before(toks[k], toks[l])
                   /\ contiguous =>
                          \A k, l \in 1..Len(toks) : k < l => Before(toks[k], toks[l])
        /\ NoTokenTwice

\* the blocks of a pair hold tokens of two records of one identifier and of
\* a record of another identifier that lies between them in the file
C17_Witness ==
    /\ Chunked
    /\ \E i \in 1..Len(LastPairs) :
           LET toks == TokensOf(BlocksOf(LastPairs[i]))
           IN  \E k, l, m \in 1..Len(toks) :
                   /\ toks[k].line < toks[l].line /\ toks[l].line < toks[m].line
                   /\ AsinIndexOf(LastPairs[i], toks[k].line)
                          = AsinIndexOf(LastPairs[i], toks[m].line)
                   /\ AsinIndexOf(LastPairs[i], toks[k].line)
                          # AsinIndexOf(LastPairs[i], toks[l].line)

(***************************************************************************)
(* SpecHeader: one construction on a cache miss over every file of up to   *)
(* MaxLines lines that are blank, a single word, or two words.             *)
(***************************************************************************)
HeaderLines == { <<>>, << <<"A1">> >>, << <<"fast">>, <<"slow">> >> }

HeaderFiles == UNION {[1..n -> HeaderLines] : n \in 0..MaxLines}

InitHeader ==
    /\ \E f \in HeaderFiles :
           \/ files = Store(<<>>, TrainFile, f) /\ vocab = <<>>
           \/ files = Store(<<>>, DevFile, f) /\ vocab = TrainedVocab
    /\ args = [model_type |-> BertBase, train_data_file |-> TrainFile,
               eval_data_file |-> DevFile, block_size |-> 1, classes |-> Variants]
    /\ cache = <<>>
    /\ tokenizer = "bert"
    /\ last = NoConstruction
    /\ seen = <<>>
    /\ ops = 1
    /\ proc = <<>>

SpecHeader == InitHeader /\ [][NextBuild]_vars

\* the source file of the most recent construction of a grouped variant, on
\* a cache miss, has a header line of a single word
SingleTokenHeader ==
    /\ Constructed /\ ~last.hit /\ last.file_path \in DOMAIN files
    /\ last.variant \in GroupedVariants
    /\ \E n \in 1..Len(LastLines) : IsHeader(LastLines, n) /\ Len(LastLines[n]) = 1

(***************************************************************************)
(* C18  Malformed header.  When the source file of a grouped variant has a *)
(* header line of a single word, the header's indexing raises IndexError,  *)
(* the construction fails with it, and no text of the grouped corpus is    *)
(* filed under such a header.                                              *)
(***************************************************************************)
C18_MalformedHeader ==
    SingleTokenHeader =>
        /\ \A n \in 1..Len(LastLines) :
               (IsHeader(LastLines, n) /\ Len(LastLines[n]) = 1)
                   => HeaderIndexError(LastLines[n])
        /\ last.out.error = "IndexError"
        /\ \A e \in EntriesOf(last.out.domain_corpus) : \A k \in 1..Len(e[4]) :
               Len(LastLines[HeaderOf(LastLines, e[4][k].line)]) # 1

\* what the code does instead: the single word is both identifier and
\* rating, the domain is the empty string, and the body lines are filed
\* under them and chunked
SingleTokenAccepted ==
    /\ SingleTokenHeader
    /\ last.out.error = ""
    /\ \E e \in EntriesOf(last.out.domain_corpus) :
           /\ e[1] = << <<"">> >>
           /\ e[2] = e[3]
           /\ Len(LastLines[HeaderOf(LastLines, e[4][1].line)]) = 1

(***************************************************************************)
(* SpecInsert: a directory with two source files, one made of two to       *)
(* MaxOrderRecs records and one that is the same file with a header-only   *)
(* record inserted between two of its records, and two constructions.  Both *)
(* paths are training paths, so each construction builds its vocabulary.   *)
(***************************************************************************)
InsertRecords ==
    { << Header("A1", << <<"Books">> >>, "good"), << <<"fast">> >> >>,
      << Header("A2", LaptopsSub, "good"), << <<"slow">> >>, << <<"nice">> >> >>,
      << Header("A1", << <<"Restaurants">> >>, "bad"), << <<"poor">> >> >> }

\* a record that has a header and no body line; its domain, rating and
\* identifier occur in no record of InsertRecords
HeaderOnly == << Header("A9", << <<"Toys">> >>, "new") >>

\* the records rs with the header-only record after the k-th
InsertAfter(rs, k) == SubSeq(rs, 1, k) \o <<HeaderOnly>> \o SubSeq(rs, k + 1, Len(rs))

InitInsert ==
    /\ \E n \in 2..MaxOrderRecs : \E rs \in [1..n -> InsertRecords], k \in 1..(n - 1) :
           files = Store(Store(<<>>, TrainFile, FileOf(rs)),
                         TrainvalFile, FileOf(InsertAfter(rs, k)))
    /\ \E b \in 1..MaxBlock :
           args = [model_type |-> BertBase, train_data_file |-> TrainFile,
                   eval_data_file |-> TrainvalFile, block_size |-> b,
                   classes |-> GroupedVariants]
    /\ cache = <<>>
    /\ vocab = <<>>
    /\ tokenizer = "bert"
    /\ last = NoConstruction
    /\ seen = <<>>
    /\ ops = 2
    /\ proc = <<>>

NextInsert == \E cls \in GroupedVariants, evaluate \in BOOLEAN : LoadAndCacheExamples(cls, evaluate)

SpecInsert == InitInsert /\ [][NextInsert]_vars

\* a grouped corpus without the line numbers the model keeps with the texts
Unlined(domain_corpus) ==
    [i \in 1..Len(domain_corpus) |->
        <<domain_corpus[i][1],
          [j \in 1..Len(domain_corpus[i][2]) |->
              <<domain_corpus[i][2][j][1],
                [k \in 1..Len(domain_corpus[i][2][j][2]) |->
                    <<domain_corpus[i][2][j][2][k][1],
                      [l \in 1..Len(domain_corpus[i][2][j][2][k][2]) |->
                          domain_corpus[i][2][j][2][k][2][l].text]>>]>>]>>]

(***************************************************************************)
(* C19  Header-only record.  When a grouped variant is constructed on a    *)
(* file and then, on a cache miss, on the same file with a header-only     *)
(* record inserted between two of its records, the second construction     *)
(* has the grouped corpus of the first (no entry for the domain, rating or *)
(* identifier of the inserted header), builds the same vocabulary, ends    *)
(* the same way and returns the same rows.                                 *)
(***************************************************************************)
C19_HeaderOnlyRecord ==
    [][(/\ last.at # 0 /\ last'.at # last.at
        /\ last.variant = last'.variant
        /\ last.file_path = TrainFile /\ last'.file_path = TrainvalFile
        /\ ~last.hit /\ ~last'.hit)
       => /\ Unlined(last'.out.domain_corpus) = Unlined(last.out.domain_corpus)
          /\ \A e \in EntriesOf(last'.out.domain_corpus) :
                 e[1] # HeaderDomain(HeaderOnly[1]) /\ e[2] # HeaderRating(HeaderOnly[1])
                     /\ e[3] # HeaderAsin(HeaderOnly[1])
          /\ last'.out.domain_to_id = last.out.domain_to_id
          /\ last'.out.error = last.out.error
          /\ last'.out.examples = last.out.examples]_vars

\* both files have been built by the same class, rows were returned, and
\* the vocabulary file is the one the file with the header-only record left
C19_Witness ==
    /\ last.at # 0 /\ ~last.hit
    /\ last.variant \in GroupedVariants
    /\ last.file_path = TrainvalFile
    /\ last.out.error = "" /\ Len(last.out.examples) > 1
    /\ CallId(last.variant, <<>>, TrainFile, last.block_size) \in DOMAIN seen
    /\ seen[CallId(last.variant, <<>>, TrainFile, last.block_size)].examples
           = last.out.examples
    /\ \E n \in 1..Len(LastLines) :
           /\ LastLines[n] = HeaderOnly[1]
           /\ n > 1 /\ n < Len(LastLines)
           /\ LastLines[n - 1] = <<>> /\ LastLines[n + 1] = <<>>

(***************************************************************************)
(* SpecRace: two processes construct the same class with the same source   *)
(* path and block size, step by step and in any interleaving, in a         *)
(* directory without a cache file.  np.save and json.dump are one step     *)
(* each.                                                                   *)
(***************************************************************************)
\* the source files of SpecRace: one record each
RaceFiles == {FileOf(<<r>>) : r \in Records}

InitRace ==
    /\ \E f \in RaceFiles :
           \/ files = Store(<<>>, TrainFile, f) /\ vocab = <<>>
           \/ files = Store(<<>>, DevFile, f) /\ vocab = TrainedVocab
    /\ \E b \in 1..MaxBlock, v \in Variants :
           args = [model_type |-> BertBase, train_data_file |-> TrainFile,
                   eval_data_file |-> DevFile, block_size |-> b, classes |-> {v}]
    /\ cache = <<>>
    /\ tokenizer = "bert"
    /\ last = NoConstruction
    /\ seen = <<>>
    /\ ops = 0
    /\ proc = <<NotStarted, NotStarted>>

NextRace ==
    \E i \in 1..2 :
        \/ \E v \in args.classes, file_path \in DOMAIN files :
               Call(i, v, file_path, args.block_size)
        \/ Step(i)

SpecRace == InitRace /\ [][NextRace]_vars

\* the files both processes have written
BothWrote == proc[1].wrote \cap proc[2].wrote

\* the file at the cache path is the array of the process that saved last
LastSaverWins ==
    \A i \in 1..2 :
        (last.at = i /\ proc[i].pc = "returned" /\ proc[i].missed)
            => /\ proc[i].key \in DOMAIN cache
               /\ cache[proc[i].key] = proc[i].rows

(***************************************************************************)
(* C20  Unsynchronized cache build, as stated.  In every interleaving of   *)
(* the two constructions the file at the cache path is the array of the    *)
(* process that saved last, and the cache file is the only file both       *)
(* processes write.  (That both can miss and run the whole pipeline is the *)
(* state C20_Witness.)                                                     *)
(***************************************************************************)
C20_Original ==
    /\ LastSaverWins
    /\ \A f \in BothWrote : f = proc[1].key

(***************************************************************************)
(* C20  Unsynchronized cache build, amended.  In every interleaving the    *)
(* file at the cache path is the array of the process that saved last; the *)
(* files both processes write are the cache file and, for a class that     *)
(* builds its vocabulary on a training path, the vocabulary file, which    *)
(* both processes that miss write as well.                                 *)
(***************************************************************************)
C20_Amended ==
    /\ LastSaverWins
    /\ \A f \in BothWrote :
           \/ f = proc[1].key
           \/ /\ f = VocabFile(proc[1].variant, proc[1].file_path)
              /\ WritesVocabulary(proc[1].variant, proc[1].file_path)
    /\ (/\ \A i \in 1..2 : proc[i].missed /\ proc[i].pc \in {"for", "while", "concat", "save",
                                                           "returned"}
        /\ WritesVocabulary(proc[1].variant, proc[1].file_path))
           => VocabFile(proc[1].variant, proc[1].file_path) \in BothWrote

\* both processes saw the miss, both ran the pipeline to its end and saved,
\* and the cache file is the array of the one that saved last
C20_Witness ==
    /\ \A i \in 1..2 : proc[i].missed /\ proc[i].pc = "returned"
    /\ proc[1].key = proc[2].key
    /\ proc[1].key \in BothWrote
    /\ last.at \in 1..2
    /\ cache[proc[1].key] = proc[last.at].rows

(***************************************************************************)
(* C21  DOI polarity.  In a build of DOIDataset every text of the grouped  *)
(* corpus and every block is of a domain that is not a DOI (the branch     *)
(* "domain in dois" of the chunker is not taken), and no row starts with   *)
(* the ID the vocabulary gives "[DOI]".  In a build of                     *)
(* LaptopDomainDataset, RestDomainDataset or LRDataset every text and      *)
(* every block is of a DOI of the class, the ValueError "domain is not in  *)
(* DOI" is not raised, and every row starts with the ID the loaded         *)
(* vocabulary gives "[DOI]".                                               *)
(***************************************************************************)
\* the most recent construction is a build of a class that filters by DOI
DoiBuild ==
    /\ Constructed
    /\ ~last.hit
    /\ last.variant \in {"DOIDataset", "LaptopDomainDataset", "RestDomainDataset", "LRDataset"}
    /\ last.file_path \in DOMAIN files

\* the first value of every row is (is not) the ID of "[DOI]"
RowsStartWithDoi ==
    \A i \in 1..Len(last.out.examples) :
        last.out.examples[i][1] = Uint16Row(<<Get(last.out.domain_to_id, TokDOI)>>)[1]

NoRowStartsWithDoi ==
    \A i \in 1..Len(last.out.examples) :
        last.out.examples[i][1] # Uint16Row(<<Get(last.out.domain_to_id, TokDOI)>>)[1]

C21_DoiPolarity ==
    DoiBuild =>
        IF last.variant = "DOIDataset"
        THEN /\ \A e \in EntriesOf(last.out.domain_corpus) : e[1] \notin Dois(last.variant)
             /\ \A i \in 1..Len(last.out.blocks) :
                    last.out.blocks[i].domain \notin Dois(last.variant)
             /\ NoRowStartsWithDoi
        ELSE /\ \A e \in EntriesOf(last.out.domain_corpus) : e[1] \in Dois(last.variant)
             /\ \A i \in 1..Len(last.out.blocks) :
                    last.out.blocks[i].domain \in Dois(last.variant)
             /\ last.out.error # "ValueError: domain is not in DOI"
             /\ RowsStartWithDoi

\* the same for the source files in which no domain has the name "[DOI]"
DoiPolarityOfPlainNames ==
    (DoiBuild /\ \A n \in 1..Len(LastLines) :
                     IsHeader(LastLines, n) => HeaderDomain(LastLines[n]) # TokDOI)
        => C21_DoiPolarity

(***************************************************************************)
(* C22  Vocabulary and cached arrays stay coherent.  Whatever happens in   *)
(* the directory after a successful build of a grouped variant, as long as *)
(* its cache file is there with the rows it saved and its vocabulary file  *)
(* is there: every row of the cache file starts with the ID that the       *)
(* vocabulary file now gives to the domain of the row's block (to "[DOI]"  *)
(* or "[OTHER]" where the variant uses them).                              *)
(***************************************************************************)
\* the vocabulary file of the most recent construction
LastVocabFile == VocabFile(last.variant, last.file_path)

C22_Coherent ==
    [][(/\ GroupedRows
        /\ last.key \in DOMAIN cache'
        /\ cache'[last.key] = last.out.examples
        /\ LastVocabFile \in DOMAIN vocab')
       => \A i \in 1..Len(last.out.examples) :
              LET seg == DomainSeg(last.variant, vocab'[LastVocabFile],
                                   last.out.blocks[i].domain)
              IN  /\ seg.err = ""
                  /\ last.out.examples[i][1] = Uint16Row(<<seg.id>>)[1]]_vars

\* the same for the steps that are no construction on a training path
CoherentWithoutRebuild ==
    [][(last'.at # last.at => ~last'.out.vocab_written)
       => ((/\ GroupedRows
            /\ last.key \in DOMAIN cache'
            /\ cache'[last.key] = last.out.examples
            /\ LastVocabFile \in DOMAIN vocab')
           => \A i \in 1..Len(last.out.examples) :
                  LET seg == DomainSeg(last.variant, vocab'[LastVocabFile],
                                       last.out.blocks[i].domain)
                  IN  /\ seg.err = ""
                      /\ last.out.examples[i][1] = Uint16Row(<<seg.id>>)[1])]_vars

(***************************************************************************)
(* C23  A failed build leaves no cache file, as stated.  A construction    *)
(* that fails on a cache miss leaves no file at its cache path and changes *)
(* no file: not a source file, not a cache file, not a vocabulary file;    *)
(* and a cache file appears only in a construction that builds to its end. *)
(***************************************************************************)
\* this step is a construction that misses the cache and fails
FailedBuild == last'.at # last.at /\ ~last'.hit /\ last'.out.error # ""

\* a cache file appears only at the cache path of a build that has run to
\* its end
CacheOnlyByBuild ==
    \A k \in (DOMAIN cache') \ (DOMAIN cache) :
        last'.at # last.at /\ last'.key = k /\ ~last'.hit /\ last'.out.error = ""

LRTagEmbBuild == TagEmbBuild /\ last.variant = "LRTagEmbDataset"

\* the domains that have a body line in the source file
BodyDomains ==
    {HeaderDomain(LastLines[HeaderOf(LastLines, n)]) :
         n \in {m \in 1..Len(LastLines) : IsBody(LastLines, m)}}

C24_LREmission ==
    LRTagEmbBuild =>
        /\ \A dom \in BodyDomains :
               /\ Has(last.out.domain_corpus, dom)
               /\ last.out.vocab_written => Has(last.out.domain_to_id, dom)
        /\ \A i \in 1..Len(last.out.blocks) :
               last.out.blocks[i].domain \in {Laptops, Restaurants}
        /\ \A i, j \in 1..Len(last.out.blocks) :
               (last.out.blocks[i].domain = Restaurants /\ last.out.blocks[j].domain = Laptops)
                   => j < i
        /\ IF last.out.blocks = <<>>
           THEN last.out.error = "ValueError: need at least one array to concatenate"
           ELSE last.out.error = "" /\ Len(last.out.examples) = Len(last.out.blocks)

\* Restaurants comes first in the file and Laptops first in the rows
C24_Witness ==
    /\ LRTagEmbBuild
    /\ last.out.error = ""
    /\ HeaderDomain(LastLines[1]) = Restaurants
    /\ last.out.blocks[1].domain = Laptops
    /\ last.out.blocks[Len(last.out.blocks)].domain = Restaurants

\* the file has a third domain and no Restaurants, and rows are returned
LROneDomainAbsent ==
    /\ LRTagEmbBuild
    /\ last.out.error = ""
    /\ Restaurants \notin BodyDomains
    /\ \E dom \in BodyDomains : dom \notin {Laptops, Restaurants}

(***************************************************************************)
(* SpecWide: one construction on a cache miss over the one-record source   *)
(* files, with a tokenizer whose IDs fit 16 bits or with one whose IDs are *)
(* 65536 and above.                                                        *)
(***************************************************************************)
InitWide ==
    /\ \E f \in RaceFiles \cup {ExampleFile} :
           \/ files = Store(<<>>, TrainFile, f) /\ vocab = <<>>
           \/ files = Store(<<>>, DevFile, f) /\ vocab = TrainedVocab
    /\ \E b \in 1..MaxBlock :
           args = [model_type |-> BertBase, train_data_file |-> TrainFile,
                   eval_data_file |-> DevFile, block_size |-> b, classes |-> Variants]
    /\ cache = <<>>
    /\ tokenizer \in {"bert", "xlmr"}
    /\ last = NoConstruction
    /\ seen = <<>>
    /\ ops = 1
    /\ proc = <<>>

SpecWide == InitWide /\ [][NextBuild]_vars

\* input_ids as the chunker computes them for the i-th emitted block
ComputedIds(i) ==
    IF last.variant \in GroupedVariants
    THEN InputIds(last.tokenizer,
                  DomainSeg(last.variant, last.out.domain_to_id,
                            last.out.blocks[i].domain).id,
                  last.out.blocks[i].toks)
    ELSE BuildInputsWithSpecialTokens(last.tokenizer, BlockIds(i))

\* the most recent construction is a build that has returned rows
BuiltRows == Constructed /\ ~last.hit /\ last.out.error = "" /\ last.out.examples # <<>>

(***************************************************************************)
(* C25  Values survive narrowing.  In every build that returns rows there  *)
(* is one row per emitted block, __getitem__ of the i-th row returns the   *)
(* segment ID and the framed token IDs the chunker has computed for the    *)
(* i-th block, whatever the size of the IDs, and the placeholder -100 (as  *)
(* it is or as 16 bits) is in no row.                                      *)
(***************************************************************************)
C25_ValuesSurvive ==
    BuiltRows =>
        /\ Len(last.out.examples) = Len(last.out.blocks)
        /\ \A i \in 1..Len(last.out.examples) :
               /\ GetItem(last.out.examples, i) = ComputedIds(i)
               /\ \A j \in 1..Len(last.out.examples[i]) :
                      GetItem(last.out.examples, i)[j] \notin {-100, (-100) % 65536}

\* the same for the builds in which every computed ID is below 65536
ValuesBelow65536Survive ==
    (BuiltRows /\ \A i \in 1..Len(last.out.blocks) :
                      \A j \in 1..Len(ComputedIds(i)) : ComputedIds(i)[j] < 65536)
        => C25_ValuesSurvive

\* a row whose token ID has lost its upper bits
WrappedId ==
    /\ BuiltRows
    /\ \E i \in 1..Len(last.out.examples) : \E j \in 1..Len(ComputedIds(i)) :
           /\ ComputedIds(i)[j] >= 65536
           /\ GetItem(last.out.examples, i)[j] = ComputedIds(i)[j] - 65536

====
